---------------------------- MODULE Spec2Model ----------------------------
(***************************************************************************)
(* A model of the zipcodes analysis pipeline (backend/cli.py and the       *)
(* modules it calls): the source merge, the income and financing models,   *)
(* the hard filter and ranking, and the snapshot / delta commands.         *)
(*                                                                         *)
(* Representation.                                                         *)
(*  - A DataFrame is [cols |-> set of column names, rows |-> sequence of   *)
(*    rows]; a row is a function from the column names to cell values.     *)
(*  - A float64 cell is an integer count of a fixed unit (dollars for      *)
(*    money columns, 1/10000 for rates, ratios and the score), rounded     *)
(*    down to the unit, or one of the three non-finite values NaN, PosInf  *)
(*    and NegInf.  NaN is also pandas' missing value.                      *)
(*  - A raw zip cell, as a CSV or parquet file holds it, is a record       *)
(*    [dtype, n, s]: an int64 cell carries the integer n, an object cell   *)
(*    the string s.  After normalisation a zip is a plain string.          *)
(***************************************************************************)
EXTENDS Integers, Sequences, FiniteSets, TLC

VARIABLES
    pc,         \* position of the `run` command ("idle" between commands)
    df,         \* the DataFrame `run` is transforming
    cfg,        \* the configuration read by the command in progress
    inp,        \* the input tables of the command in progress
    today,      \* the calendar date datetime.now() reports
    target,     \* backend/out/target_zips.parquet (NoFile when absent)
    snapshots,  \* backend/out/run_<date>.parquet, per date (NoFile when absent)
    zipview,    \* table zipview of backend/out/zipfinder.duckdb
    deltasFile, \* backend/out/deltas.parquet (NoFile when absent)
    exit,       \* outcome of the last command: [code, error, detail]
    echo        \* the messages the current or last command has printed

vars == <<pc, df, cfg, inp, today, target, snapshots, zipview, deltasFile, exit,
          echo>>

-----------------------------------------------------------------------------
(* float64 arithmetic on fixed-point cells                                 *)

NaN == 2000000001
PosInf == 2000000000
NegInf == -2000000000

IsNaN(x) == x = NaN
IsInf(x) == x = PosInf \/ x = NegInf
IsFinite(x) == ~IsNaN(x) /\ ~IsInf(x)

Sign(x) == IF x > 0 THEN 1 ELSE IF x < 0 THEN -1 ELSE 0
SignedInf(s) == IF s > 0 THEN PosInf ELSE NegInf

\* a + b
FAdd(a, b) ==
    IF IsNaN(a) \/ IsNaN(b) THEN NaN
    ELSE IF IsInf(a) /\ IsInf(b) THEN (IF a = b THEN a ELSE NaN)
    ELSE IF IsInf(a) THEN a
    ELSE IF IsInf(b) THEN b
    ELSE a + b

\* -a
FNeg(a) ==
    IF IsNaN(a) THEN NaN
    ELSE IF a = PosInf THEN NegInf
    ELSE IF a = NegInf THEN PosInf
    ELSE 0 - a

\* a - b
FSub(a, b) == FAdd(a, FNeg(b))

\* a * b, where b counts units of 1/unit
FMul(a, b, unit) ==
    IF IsNaN(a) \/ IsNaN(b) THEN NaN
    ELSE IF IsInf(a) \/ IsInf(b)
         THEN (IF a = 0 \/ b = 0 THEN NaN ELSE SignedInf(Sign(a) * Sign(b)))
    ELSE (a \div unit) * b + ((a % unit) * b) \div unit

\* a / b, the quotient counted in units of 1/unit
FDiv(a, b, unit) ==
    IF IsNaN(a) \/ IsNaN(b) THEN NaN
    ELSE IF IsInf(a) /\ IsInf(b) THEN NaN
    ELSE IF IsInf(a) THEN SignedInf(Sign(a) * (IF b < 0 THEN -1 ELSE 1))
    ELSE IF IsInf(b) THEN 0
    ELSE IF b = 0 THEN (IF a = 0 THEN NaN ELSE SignedInf(Sign(a)))
    ELSE (a * unit) \div b

\* abs(a)
FAbs(a) ==
    IF IsNaN(a) THEN NaN
    ELSE IF IsInf(a) THEN PosInf
    ELSE IF a < 0 THEN 0 - a ELSE a

\* comparisons: every comparison with NaN is false
FGe(a, b) == ~IsNaN(a) /\ ~IsNaN(b) /\ a >= b
FLe(a, b) == ~IsNaN(a) /\ ~IsNaN(b) /\ a <= b
FGt(a, b) == ~IsNaN(a) /\ ~IsNaN(b) /\ a > b

\* a faulty variant, without the replacement, which C2 must tell apart
ReplaceNonFiniteDropped(x) == x
\* s.replace([np.inf, -np.inf], 0).fillna(0), cell by cell
ReplaceNonFinite(x) == IF IsInf(x) \/ IsNaN(x) THEN 0 ELSE x

\* s.fillna(v), cell by cell
FillNa(x, v) == IF IsNaN(x) THEN v ELSE x

-----------------------------------------------------------------------------
(* strings of digits, and the zip normalisation .astype(str).str.zfill(5)   *)

ZipWidth == 5

\* str(n) for an integer n >= 0, as its sequence of decimal digits
RECURSIVE IntStr(_)
IntStr(n) == IF n < 10 THEN <<n>> ELSE Append(IntStr(n \div 10), n % 10)

\* s.zfill(width): zeros on the left up to the width, longer strings unchanged
RECURSIVE ZFill(_, _)
ZFill(s, width) == IF Len(s) >= width THEN s ELSE ZFill(<<0>> \o s, width)

\* lexicographic order of two strings
RECURSIVE LexLess(_, _)
LexLess(a, b) ==
    IF b = <<>> THEN FALSE
    ELSE IF a = <<>> THEN TRUE
    ELSE IF Head(a) # Head(b) THEN Head(a) < Head(b)
    ELSE LexLess(Tail(a), Tail(b))

\* raw zip cells as a file holds them
IntCell(n) == [dtype |-> "int64", n |-> n, s |-> <<>>]
StrCell(s) == [dtype |-> "object", n |-> 0, s |-> s]

\* cell.astype(str)
AsStr(cell) == IF cell.dtype = "int64" THEN IntStr(cell.n) ELSE cell.s

\* cell.astype(str).str.zfill(5)
NormZip(cell) == ZFill(AsStr(cell), ZipWidth)

-----------------------------------------------------------------------------
(* DataFrames                                                              *)

EmptyFrame(cols) == [cols |-> cols, rows |-> <<>>]

\* df[c] = f(row), for every row: adds the column or overwrites it
SetCol(t, c, f(_)) ==
    [cols |-> t.cols \cup {c},
     rows |-> [i \in DOMAIN t.rows |->
                 [k \in t.cols \cup {c} |->
                     IF k = c THEN f(t.rows[i]) ELSE t.rows[i][k]]]]

\* df[mask]: the rows satisfying keep, in order
Select(t, keep(_)) == [cols |-> t.cols, rows |-> SelectSeq(t.rows, keep)]

\* df[[c1, c2, ...]]
Project(t, cols) ==
    [cols |-> cols,
     rows |-> [i \in DOMAIN t.rows |-> [k \in cols |-> t.rows[i][k]]]]

\* df.rename(columns={old: new}), applied only when old is a column
Rename(t, old, new) ==
    IF old \notin t.cols THEN t
    ELSE LET cs == (t.cols \ {old}) \cup {new}
         IN [cols |-> cs,
             rows |-> [i \in DOMAIN t.rows |->
                         [k \in cs |-> IF k = new THEN t.rows[i][old]
                                       ELSE t.rows[i][k]]]]

\* the dtype pandas gives the zip column (an empty column is object)
ZipDtype(t) == IF t.rows = <<>> THEN "object" ELSE t.rows[1]["zip"].dtype

\* if "zip" in df.columns: df["zip"] = df["zip"].astype(str).str.zfill(5)
NormalizeZipColumn(t) ==
    IF "zip" \in t.cols THEN SetCol(t, "zip", LAMBDA r : NormZip(r["zip"])) ELSE t

\* the values of column c, in row order
Column(t, c) == [i \in DOMAIN t.rows |-> t.rows[i][c]]
ColumnSet(t, c) == {t.rows[i][c] : i \in DOMAIN t.rows}

RECURSIVE Concat(_)
Concat(ss) == IF ss = <<>> THEN <<>> ELSE Head(ss) \o Concat(Tail(ss))

\* the keys of a set in lexicographic order
RECURSIVE SortedKeys(_)
SortedKeys(K) ==
    IF K = {} THEN <<>>
    ELSE LET m == CHOOSE k \in K : \A j \in K : j = k \/ LexLess(k, j)
         IN <<m>> \o SortedKeys(K \ {m})

\* one merged row: the left row's cells, then the right row's other cells
JoinRow(l, r, lcols, rcols) ==
    [k \in lcols \cup rcols |-> IF k \in lcols THEN l[k] ELSE r[k]]
\* a row of missing values carrying only the key
KeyOnly(cols, key, v) == [k \in cols |-> IF k = key THEN v ELSE NaN]

Matches(t, key, v) == SelectSeq(t.rows, LAMBDA r : r[key] = v)

\* every left row paired with every right row of the same key
Pairs(ls, rs, lcols, rcols) ==
    Concat([i \in DOMAIN ls |->
              [j \in DOMAIN rs |-> JoinRow(ls[i], rs[j], lcols, rcols)]])

\* left.merge(right, on=key, how="inner"): the order of the left rows
InnerMerge(L, R, key) ==
    [cols |-> L.cols \cup R.cols,
     rows |-> Concat([i \in DOMAIN L.rows |->
                Pairs(<<L.rows[i]>>, Matches(R, key, L.rows[i][key]),
                      L.cols, R.cols)])]

\* left.merge(right, on=key, how="left"): unmatched left rows get missing cells
LeftMerge(L, R, key) ==
    [cols |-> L.cols \cup R.cols,
     rows |-> Concat([i \in DOMAIN L.rows |->
                LET ms == Matches(R, key, L.rows[i][key])
                IN IF ms = <<>>
                   THEN <<JoinRow(L.rows[i], KeyOnly(R.cols, key, L.rows[i][key]),
                                  L.cols, R.cols)>>
                   ELSE Pairs(<<L.rows[i]>>, ms, L.cols, R.cols)])]

\* left.merge(right, on=key, how="outer"): the union of the keys, sorted
OuterMerge(L, R, key) ==
    LET ks == SortedKeys(ColumnSet(L, key) \cup ColumnSet(R, key))
    IN [cols |-> L.cols \cup R.cols,
        rows |-> Concat([i \in DOMAIN ks |->
                   LET ls == Matches(L, key, ks[i])
                       rs == Matches(R, key, ks[i])
                   IN IF rs = <<>>
                      THEN Pairs(ls, <<KeyOnly(R.cols, key, ks[i])>>, L.cols, R.cols)
                      ELSE IF ls = <<>>
                      THEN Pairs(<<KeyOnly(L.cols, key, ks[i])>>, rs, L.cols, R.cols)
                      ELSE Pairs(ls, rs, L.cols, R.cols)])]

-----------------------------------------------------------------------------
(* backend/scoring.py: the income model                                    *)

\* rates, ratios and the score count units of 1/Unit; quantiles count 1/100
Unit == 100 * 100
MonthsPerYear == 12
LowerPct == 1
UpperPct == 99

\* the values of a sequence in ascending order
RECURSIVE Insert(_, _)
Insert(x, s) ==
    IF s = <<>> THEN <<x>>
    ELSE IF x <= Head(s) THEN <<x>> \o s
    ELSE <<Head(s)>> \o Insert(x, Tail(s))
RECURSIVE SortInts(_)
SortInts(s) == IF s = <<>> THEN <<>> ELSE Insert(Head(s), SortInts(Tail(s)))

\* the present (non-missing) values of a column over the rows of one state
Present(t, column, inGroup(_)) ==
    LET rs == SelectSeq(t.rows, LAMBDA r : inGroup(r) /\ ~IsNaN(r[column]))
    IN SortInts([i \in DOMAIN rs |-> rs[i][column]])

\* Series.quantile(pct / 100) of sorted present values: linear interpolation
\* between the two nearest ranks; NaN for an empty series
Quantile(v, pct) ==
    IF v = <<>> THEN NaN
    ELSE LET h  == (Len(v) - 1) * pct
             i  == h \div 100
             f  == h % 100
             lo == v[i + 1]
             hi == v[IF i + 2 <= Len(v) THEN i + 2 ELSE Len(v)]
         IN lo + ((hi - lo) * f) \div 100

\* Series.clip(lower, upper), cell by cell: a missing cell stays missing and a
\* missing bound does not clip
Clip(x, lower, upper) ==
    IF IsNaN(x) THEN x
    ELSE IF ~IsNaN(lower) /\ x < lower THEN lower
    ELSE IF ~IsNaN(upper) /\ x > upper THEN upper
    ELSE x

\* Series.median() of sorted present values; NaN for an empty series
Median(v) ==
    IF v = <<>> THEN NaN
    ELSE IF Len(v) % 2 = 1 THEN v[(Len(v) + 1) \div 2]
    ELSE (v[Len(v) \div 2] + v[Len(v) \div 2 + 1]) \div 2

\* a faulty variant, with bounds taken over the whole table, which C24 must
\* tell apart
winsorize_whole_table(t, column) ==
    IF column \notin t.cols \/ "state" \notin t.cols THEN t
    ELSE SetCol(t, column, LAMBDA r :
            LET v == Present(t, column, LAMBDA q : TRUE)
            IN Clip(r[column], Quantile(v, LowerPct), Quantile(v, UpperPct)))
winsorize_by_state(t, column) ==
    IF column \notin t.cols \/ "state" \notin t.cols THEN t
    ELSE SetCol(t, column, LAMBDA r :
            LET v == Present(t, column, LAMBDA q : q["state"] = r["state"])
            IN Clip(r[column], Quantile(v, LowerPct), Quantile(v, UpperPct)))

\* a faulty variant, filling with the global median only, which C25 must tell
\* apart
fill_missing_global(t, column) ==
    IF column \notin t.cols THEN t
    ELSE SetCol(t, column, LAMBDA r :
            FillNa(r[column], Median(Present(t, column, LAMBDA q : TRUE))))
fill_missing_by_state_then_global(t, column) ==
    IF column \notin t.cols THEN t
    ELSE LET byState ==
                 IF "state" \in t.cols
                 THEN SetCol(t, column, LAMBDA r :
                        FillNa(r[column],
                               Median(Present(t, column,
                                              LAMBDA q : q["state"] = r["state"]))))
                 ELSE t
             global == Median(Present(byState, column, LAMBDA q : TRUE))
         IN SetCol(byState, column, LAMBDA r : FillNa(r[column], global))

\* a faulty variant, leaving capex out of the sum, which C14 must tell apart
OperatingExpensesWithoutCapex(r) ==
    FAdd(FAdd(FAdd(r["tax_expense"], r["insurance_expense"]), r["repairs"]),
         r["management"])
\* the operating expenses column: the sum of the five expense lines
OperatingExpenses(r) ==
    FAdd(FAdd(FAdd(FAdd(r["tax_expense"], r["insurance_expense"]),
                   r["repairs"]), r["management"]), r["capex"])

\* a faulty variant, dividing the effective gross income, which C15 must tell
\* apart
CapRateOfGross(r) == ReplaceNonFinite(FDiv(r["egi"], r["price"], Unit))
\* the cap rate column: noi / price with non-finite results replaced by 0
CapRate(r) == ReplaceNonFinite(FDiv(r["noi"], r["price"], Unit))

compute_caps(t0, a) ==
    LET t1  == IF "state" \in t0.cols
               THEN winsorize_by_state(winsorize_by_state(t0, "price"), "rent")
               ELSE t0
        t2  == fill_missing_by_state_then_global(
                   fill_missing_by_state_then_global(t1, "price"), "rent")
        t3  == SetCol(t2, "gross_income", LAMBDA r : FMul(r["rent"], MonthsPerYear, 1))
        t4  == SetCol(t3, "vacancy_loss",
                      LAMBDA r : FMul(r["gross_income"], a.vacancy_rate, Unit))
        t5  == SetCol(t4, "egi", LAMBDA r : FSub(r["gross_income"], r["vacancy_loss"]))
        t6  == SetCol(t5, "tax_expense", LAMBDA r :
                      IF "eff_tax_rate" \in t5.cols
                      THEN FMul(r["price"], r["eff_tax_rate"], Unit) ELSE 0)
        t7  == SetCol(t6, "insurance_expense",
                      LAMBDA r : FMul(r["price"], a.insurance_pct, Unit))
        t8  == SetCol(t7, "repairs", LAMBDA r : FMul(r["price"], a.maintenance_pct, Unit))
        t9  == SetCol(t8, "management",
                      LAMBDA r : FMul(r["egi"], a.property_management_pct, Unit))
        t10 == SetCol(t9, "capex", LAMBDA r : FMul(r["price"], a.capex_pct, Unit))
        t11 == SetCol(t10, "operating_expenses", OperatingExpenses)
        t12 == SetCol(t11, "noi", LAMBDA r : FSub(r["egi"], r["operating_expenses"]))
        t13 == SetCol(t12, "cap_rate", CapRate)
        t14 == SetCol(t13, "rent_growth", LAMBDA r : 0)
    IN SetCol(t14, "landlord_score", LAMBDA r : 0)

-----------------------------------------------------------------------------
(* backend/finance.py: the financing model                                 *)

\* (1 + monthly_rate) ** n, in units of 1/Unit
RECURSIVE Growth(_, _)
Growth(monthly_rate, n) ==
    IF n = 0 THEN Unit
    ELSE LET half == Growth(monthly_rate, n \div 2)
             square == (half * half) \div Unit
         IN IF n % 2 = 0 THEN square
            ELSE (square * (Unit + monthly_rate)) \div Unit

\* the divisions of mortgage_payment that raise ZeroDivisionError
MortgageRaises(principal, rate, term_years) ==
    LET monthly_rate == rate \div MonthsPerYear
        num_payments == term_years * MonthsPerYear
    IN /\ principal # 0
       /\ \/ monthly_rate = 0 /\ num_payments = 0
          \/ monthly_rate # 0 /\ Growth(monthly_rate, num_payments) - Unit = 0

mortgage_payment(principal, rate, term_years) ==
    LET monthly_rate == rate \div MonthsPerYear
        num_payments == term_years * MonthsPerYear
        g == Growth(monthly_rate, num_payments)
    IN IF principal = 0 THEN 0
       ELSE IF IsNaN(principal) THEN NaN
       ELSE IF monthly_rate = 0 THEN principal \div num_payments
       ELSE (principal * ((monthly_rate * g) \div (g - Unit))) \div Unit

\* the two ratio columns, each with non-finite results replaced by 0
Dscr(r) == ReplaceNonFinite(FDiv(r["noi"], r["annual_debt_service"], Unit))
CashOnCash(r) ==
    ReplaceNonFinite(FDiv(FSub(r["noi"], r["annual_debt_service"]),
                          r["cash_needed"], Unit))

\* a faulty variant, leaving the reserves out, which C17 must tell apart
CashNeededWithoutReserves(r, costs) ==
    FAdd(FAdd(FAdd(FAdd(FAdd(r["down_payment"],
        FMul(r["price"], costs.closing_costs_pct, Unit)),
        r["rehab_cost"]), costs.inspection),
        costs.appraisal), costs.title_insurance)
\* lines 111-120
CashNeeded(r, costs) ==
    FAdd(FAdd(FAdd(FAdd(FAdd(FAdd(r["down_payment"],
        FMul(r["price"], costs.closing_costs_pct, Unit)),
        r["rehab_cost"]), r["reserves"]), costs.inspection),
        costs.appraisal), costs.title_insurance)

attach_financing_constraints(t0, loan, costs) ==
    LET t1 == SetCol(t0, "loan_amount",
                     LAMBDA r : FMul(r["price"], Unit - loan.down_payment_pct, Unit))
        t2 == SetCol(t1, "down_payment",
                     LAMBDA r : FMul(r["price"], loan.down_payment_pct, Unit))
        t3 == SetCol(t2, "monthly_payment", LAMBDA r :
                     mortgage_payment(r["loan_amount"], loan.rate, loan.term_years))
        monthly_tax(r) == IF "tax_expense" \in t3.cols
                          THEN FDiv(r["tax_expense"], MonthsPerYear, 1) ELSE 0
        monthly_insurance(r) == IF "insurance_expense" \in t3.cols
                                THEN FDiv(r["insurance_expense"], MonthsPerYear, 1)
                                ELSE 0
        t4 == SetCol(t3, "monthly_piti", LAMBDA r :
                     FAdd(FAdd(r["monthly_payment"], monthly_tax(r)),
                          monthly_insurance(r)))
        t5 == SetCol(t4, "reserves",
                     LAMBDA r : FMul(r["monthly_piti"], costs.reserves_months, 1))
        t6 == SetCol(t5, "rehab_cost",
                     LAMBDA r : IF costs.rehab_numeric THEN costs.rehab ELSE 0)
        t7 == SetCol(t6, "annual_debt_service",
                     LAMBDA r : FMul(r["monthly_payment"], MonthsPerYear, 1))
        t8 == SetCol(t7, "cash_needed", LAMBDA r : CashNeeded(r, costs))
        t9 == SetCol(t8, "dscr", Dscr)
    IN SetCol(t9, "cash_on_cash", CashOnCash)

-----------------------------------------------------------------------------
(* backend/cli.py, run: the hard filter, the score and the ranking          *)

PriceNormalizer == 1000000
CrimePenaltyAbove == 12500
CrimePenaltyFactor == 9500

\* a faulty variant, with the first clause only, which C1 must tell apart
PassesFilterCapOnly(r, c) == FGe(r["cap_rate"], c.cap_threshold)
\* the three clauses of the hard filter
PassesFilter(r, c) ==
    /\ FGe(r["cap_rate"], c.cap_threshold)
    /\ FLe(r["cash_needed"], c.max_cash)
    /\ FGe(r["dscr"], c.min_dscr)

\* df[(cap_rate >= cap_threshold) & (cash_needed <= max_cash) & (dscr >= min_dscr)]
HardFilter(t, c) == Select(t, LAMBDA r : PassesFilter(r, c))

\* (1 / price) * w * 1000000, counted in units of 1/Unit
InversePriceTerm(price, w) ==
    IF IsNaN(price) THEN NaN
    ELSE IF price = 0 THEN (IF w = 0 THEN NaN ELSE SignedInf(w))
    ELSE (PriceNormalizer * w) \div price

\* a faulty variant, scoring without the cap_rate term, which C19 must tell apart
BaseScoreWithoutCapRate(r, w) ==
    FAdd(FAdd(FMul(r["cash_on_cash"], w.cash_on_cash, Unit),
              FMul(r["dscr"], w.dscr, Unit)),
         InversePriceTerm(r["price"], w.price))
\* lines 222-227
BaseScore(r, w) ==
    FAdd(FAdd(FAdd(FMul(r["cap_rate"], w.cap_rate, Unit),
                   FMul(r["cash_on_cash"], w.cash_on_cash, Unit)),
              FMul(r["dscr"], w.dscr, Unit)),
         InversePriceTerm(r["price"], w.price))

\* a faulty variant, penalising from 1.25 on, which C18 must tell apart
CrimePenaltyFromThreshold(t) ==
    IF "crime_index" \notin t.cols THEN t
    ELSE SetCol(t, "score", LAMBDA r :
            IF FGe(r["crime_index"], CrimePenaltyAbove)
            THEN FMul(r["score"], CrimePenaltyFactor, Unit) ELSE r["score"])
\* score *= 0.95 where crime_index > 1.25
CrimePenalty(t) ==
    IF "crime_index" \notin t.cols THEN t
    ELSE SetCol(t, "score", LAMBDA r :
            IF FGt(r["crime_index"], CrimePenaltyAbove)
            THEN FMul(r["score"], CrimePenaltyFactor, Unit) ELSE r["score"])

\* whether row a sorts before row b in descending order (missing scores last)
Before(a, b) == ~IsNaN(a["score"]) /\ (IsNaN(b["score"]) \/ a["score"] > b["score"])

\* df.sort_values("score", ascending=False): rows of equal score keep their order
RECURSIVE InsertRow(_, _)
InsertRow(x, s) ==
    IF s = <<>> THEN <<x>>
    ELSE IF Before(x, Head(s)) THEN <<x>> \o s
    ELSE <<Head(s)>> \o InsertRow(x, Tail(s))
RECURSIVE SortRows(_)
SortRows(rows) ==
    IF rows = <<>> THEN <<>>
    ELSE InsertRow(rows[Len(rows)], SortRows(SubSeq(rows, 1, Len(rows) - 1)))
SortByScore(t) == [cols |-> t.cols, rows |-> SortRows(t.rows)]

\* a faulty variant, recomputing cap_rate as it scores, which C23 must tell apart
ScoreAndRankRewriting(t, w) ==
    SortByScore(CrimePenalty(SetCol(SetCol(t, "score", LAMBDA r : BaseScore(r, w)),
                                    "cap_rate", LAMBDA r : ReplaceNonFinite(r["score"]))))
ScoreAndRank(t, w) ==
    SortByScore(CrimePenalty(SetCol(t, "score", LAMBDA r : BaseScore(r, w))))

-----------------------------------------------------------------------------
(* backend/cli.py, run: loading and merging the sources                     *)

DefaultTaxRate == 150

\* providers/price_redfin.py and rent_zori.py, load: the cached table with its
\* zip column normalised
ProviderLoad(t) == NormalizeZipColumn(t)

\* prices: the provider cache, else the legacy CSV; median_price becomes price
LoadPrices(src) ==
    IF src.provider
    THEN Rename(ProviderLoad(src.table), "median_price", "price")
    ELSE NormalizeZipColumn(Rename(src.table, "median_price", "price"))

\* rents: the provider cache, else the legacy CSV; median_rent becomes rent
LoadRents(src) ==
    IF src.provider
    THEN Rename(ProviderLoad(src.table), "median_rent", "rent")
    ELSE NormalizeZipColumn(Rename(src.table, "median_rent", "rent"))

\* providers/geo.py, load_zip_county
load_zip_county(t) == NormalizeZipColumn(t)

\* taxes: zip -> county -> rate through the crosswalk, else the legacy CSV
LoadTaxes(src) ==
    IF src.provider
    THEN LET zip_county == load_zip_county(src.zip_county)
         IN IF Len(src.county_tax.rows) > 0 /\ Len(zip_county.rows) > 0
            THEN SetCol(Project(LeftMerge(zip_county, src.county_tax, "county_fips"),
                                {"zip", "eff_tax_rate"}),
                        "eff_tax_rate",
                        LAMBDA r : FillNa(r["eff_tax_rate"], DefaultTaxRate))
            ELSE EmptyFrame({"zip", "eff_tax_rate"})
    ELSE NormalizeZipColumn(src.csv)

\* backend/sources.py
\* a faulty variant, without the state filter, which C10 must tell apart
load_baselines_unfiltered(zips, states) == zips
load_baselines(zips, states) ==
    IF "state" \in zips.cols
    THEN Select(zips, LAMBDA r : r["state"] \in states)
    ELSE zips

\* a faulty variant, with inner joins, which C9 must tell apart
load_signals_inner(prices, rents, taxes) ==
    LET merged == InnerMerge(prices, rents, "zip")
    IN IF Len(taxes.rows) > 0 THEN InnerMerge(merged, taxes, "zip") ELSE merged
load_signals(prices, rents, taxes) ==
    LET merged == OuterMerge(prices, rents, "zip")
    IN IF Len(taxes.rows) > 0 THEN OuterMerge(merged, taxes, "zip") ELSE merged

\* the baselines as read (lines 52-57) and the three signal tables
Baselines(i) == NormalizeZipColumn(i.baselines)
Signals(i) == load_signals(LoadPrices(i.prices), LoadRents(i.rents), LoadTaxes(i.taxes))

\* a signal table without a zip column stops the run (lines 138-143)
MissingZipColumn(i) ==
    \/ "zip" \notin LoadPrices(i.prices).cols
    \/ "zip" \notin LoadRents(i.rents).cols
    \/ "zip" \notin LoadTaxes(i.taxes).cols

\* filtered_baselines.merge(signals, on="zip", how="inner")
MergeSources(i, c) ==
    InnerMerge(load_baselines(Baselines(i), c.states_allowlist), Signals(i), "zip")

\* the required columns that the merged table lacks
RequiredCols == {"price", "rent"}
\* a faulty variant, naming every required column, which C13 must tell apart
MissingRequiredAll(t) == RequiredCols
MissingRequired(t) == RequiredCols \ t.cols

\* if "eff_tax_rate" not in df.columns: df["eff_tax_rate"] = 0.015
DefaultTax(t) ==
    IF "eff_tax_rate" \notin t.cols
    THEN SetCol(t, "eff_tax_rate", LAMBDA r : DefaultTaxRate) ELSE t

\* providers/inventory_manual.py, load_inventory: the CSV as pandas reads it,
\* zip column untouched; an absent file gives an empty table
load_inventory(f) ==
    IF ~f.exists THEN EmptyFrame({"zip", "inventory_hits"})
    ELSE Project(f.data, {"zip", "inventory_hits"})

\* pandas refuses to merge a string key column with an integer one
InventoryMergeRaises(t, inventory) ==
    /\ Len(inventory.rows) > 0
    /\ Len(t.rows) > 0
    /\ ZipDtype(inventory) = "int64"

\* the key column of an object-dtype inventory table, as stored
InventoryKeys(inventory) == SetCol(inventory, "zip", LAMBDA r : r["zip"].s)

\* a faulty variant, with an inner join, which C11 must tell apart
AttachInventoryInner(t, inventory) ==
    IF Len(inventory.rows) > 0
    THEN InnerMerge(t, InventoryKeys(inventory), "zip")
    ELSE SetCol(t, "inventory_hits", LAMBDA r : 0)
\* lines 163-168
AttachInventory(t, inventory) ==
    IF Len(inventory.rows) > 0
    THEN IF Len(t.rows) = 0
         THEN [cols |-> t.cols \cup inventory.cols, rows |-> <<>>]
         ELSE SetCol(LeftMerge(t, InventoryKeys(inventory), "zip"), "inventory_hits",
                     LAMBDA r : FillNa(r["inventory_hits"], 0))
    ELSE SetCol(t, "inventory_hits", LAMBDA r : 0)

NeutralCrime == 10000

\* the distinct values of a sequence, in order of first occurrence
RECURSIVE Unique(_)
Unique(s) ==
    IF s = <<>> THEN <<>>
    ELSE LET u == Unique(SubSeq(s, 1, Len(s) - 1))
         IN IF \E i \in DOMAIN u : u[i] = s[Len(s)] THEN u ELSE Append(u, s[Len(s)])

\* providers/crime_stub.py, load_crime: every zip of the table at the neutral index
load_crime(t) ==
    IF "zip" \notin t.cols \/ Len(t.rows) = 0 THEN EmptyFrame({"zip", "crime_index"})
    ELSE LET zs == Unique(Column(t, "zip"))
         IN [cols |-> {"zip", "crime_index"},
             rows |-> [i \in DOMAIN zs |->
                         [k \in {"zip", "crime_index"} |->
                             IF k = "zip" THEN ZFill(zs[i], ZipWidth)
                             ELSE NeutralCrime]]]

\* lines 170-176
AttachCrime(t) ==
    LET crime == load_crime(t)
    IN IF Len(crime.rows) > 0
       THEN SetCol(LeftMerge(t, crime, "zip"), "crime_index",
                   LAMBDA r : FillNa(r["crime_index"], NeutralCrime))
       ELSE SetCol(t, "crime_index", LAMBDA r : NeutralCrime)

-----------------------------------------------------------------------------
(* files, configuration and command outcomes                               *)

MaxDate == 2
Dates == 1 .. MaxDate

NoTable == EmptyFrame({})
NoFile == [exists |-> FALSE, data |-> NoTable]

\* utils.py, save_parquet: df.to_parquet(path, index=False) replaces the file
save_parquet(t) == [exists |-> TRUE, data |-> [cols |-> t.cols, rows |-> t.rows]]

\* utils.py, write_duckdb: CREATE OR REPLACE TABLE zipview AS SELECT * FROM df
write_duckdb(t) == [exists |-> TRUE, data |-> [cols |-> t.cols, rows |-> t.rows]]

NoInput == [none |-> TRUE]
NoConfig == [none |-> TRUE]

Running == [code |-> -1, error |-> "", detail |-> <<>>]
Success == [code |-> 0, error |-> "", detail |-> <<>>]
Failure(error, detail) == [code |-> 1, error |-> error, detail |-> detail]

Outputs == <<target, snapshots, zipview, deltasFile>>

-----------------------------------------------------------------------------
(* backend/cli.py, run, step by step                                       *)

\* a faulty variant, writing the table in hand on the way out, which C4 must
\* tell apart
AbortAfterWrite(error, detail) ==
    /\ pc' = "failed"
    /\ exit' = Failure(error, detail)
    /\ target' = save_parquet(df)
    /\ UNCHANGED <<df, cfg, inp, today, snapshots, zipview, deltasFile, echo>>
\* an exception leaves the command: nothing after the raising line runs
Abort(error, detail) ==
    /\ pc' = "failed"
    /\ exit' = Failure(error, detail)
    /\ UNCHANGED <<df, cfg, inp, today, target, snapshots, zipview, deltasFile, echo>>

\* the pure steps change the table and the position only
Step(next, t) ==
    /\ pc' = next
    /\ df' = t
    /\ UNCHANGED <<cfg, inp, today, target, snapshots, zipview, deltasFile, exit, echo>>

\* lines 37-149: read the configuration, load the sources, merge them
RunLoad ==
    /\ pc = "start"
    /\ IF MissingZipColumn(inp)
       THEN Abort("MissingZipColumn", [what |-> "DataFrame missing 'zip' column"])
       ELSE Step("merged", MergeSources(inp, cfg))

\* lines 151-159: the required columns, and the default tax rate
RunValidate ==
    /\ pc = "merged"
    /\ IF MissingRequired(df) # {}
       THEN Abort("MissingRequiredColumns",
                  [what |-> "Missing required columns after merge",
                   missing |-> MissingRequired(df), available |-> df.cols])
       ELSE /\ pc' = "validated"
            /\ df' = DefaultTax(df)
            /\ echo' = IF "eff_tax_rate" \notin df.cols
                       THEN echo \cup {"eff_tax_rate not found, defaulting to 0.015"}
                       ELSE echo
            /\ UNCHANGED <<cfg, inp, today, target, snapshots, zipview, deltasFile,
                           exit>>

\* lines 161-176: the inventory and crime signals
RunAux ==
    /\ pc = "validated"
    /\ IF InventoryMergeRaises(df, load_inventory(inp.inventory))
       THEN Abort("MergeDtypeMismatch",
                  [what |-> "You are trying to merge on object and int64 columns"])
       ELSE Step("joined", AttachCrime(AttachInventory(df, load_inventory(inp.inventory))))

\* lines 188-190
RunIncome ==
    /\ pc = "joined"
    /\ Step("income", compute_caps(df, cfg.assumptions))

\* lines 192-195
RunFinance ==
    /\ pc = "income"
    /\ IF \E i \in DOMAIN df.rows :
            MortgageRaises(FMul(df.rows[i]["price"], Unit - cfg.loan.down_payment_pct, Unit),
                           cfg.loan.rate, cfg.loan.term_years)
       THEN Abort("ZeroDivisionError", [what |-> "mortgage_payment"])
       ELSE Step("financed", attach_financing_constraints(df, cfg.loan, cfg.cash_costs))

\* lines 197-210
RunFilter ==
    /\ pc = "financed"
    /\ Step("filtered", HardFilter(df, cfg))

\* lines 220-235
RunRank ==
    /\ pc = "filtered"
    /\ Step("ranked", ScoreAndRank(df, cfg.scoring_weights))

\* a write that raises (an I/O error of to_parquet or of duckdb): run has no
\* handler around its three writes, so the command ends there
WriteRaises(what) == Abort("WriteError", [what |-> what])

\* lines 241-244
RunWriteTarget ==
    /\ pc = "ranked"
    /\ \/ /\ pc' = "wrote_target"
          /\ target' = save_parquet(df)
          /\ UNCHANGED <<df, cfg, inp, today, snapshots, zipview, deltasFile, exit, echo>>
       \/ WriteRaises("target_zips.parquet")

\* lines 246-250: the snapshot is named after the current date
RunWriteSnapshot ==
    /\ pc = "wrote_target"
    /\ \/ /\ pc' = "wrote_snapshot"
          /\ snapshots' = [snapshots EXCEPT ![today] = save_parquet(df)]
          /\ UNCHANGED <<df, cfg, inp, today, target, zipview, deltasFile, exit, echo>>
       \/ WriteRaises("run_<date>.parquet")

\* lines 252-257
RunWriteDuckdb ==
    /\ pc = "wrote_snapshot"
    /\ \/ /\ pc' = "done"
          /\ zipview' = write_duckdb(df)
          /\ exit' = Success
          /\ UNCHANGED <<df, cfg, inp, today, target, snapshots, deltasFile, echo>>
       \/ WriteRaises("zipfinder.duckdb")

\* the process ends: its memory is gone, the files and the exit code stay
RunExit ==
    /\ pc \in {"done", "failed"}
    /\ pc' = "idle"
    /\ df' = NoTable
    /\ cfg' = NoConfig
    /\ inp' = NoInput
    /\ echo' = {}
    /\ UNCHANGED <<today, target, snapshots, zipview, deltasFile, exit>>

\* the calendar date advances between commands
Tick ==
    /\ pc = "idle"
    /\ today < MaxDate
    /\ today' = today + 1
    /\ UNCHANGED <<pc, df, cfg, inp, target, snapshots, zipview, deltasFile, exit, echo>>

-----------------------------------------------------------------------------
(* backend/cli.py, deltas                                                  *)

ScoreThreshold == 100
CapRateThreshold == 10
CashThreshold == 100

\* datetime.strptime(since, "%Y-%m-%d") raises ValueError on any other text
ValidDate(since) == since.format = "%Y-%m-%d"
\* since_date.strftime("%Y%m%d"): the date part of the snapshot's name
SinceStr(since) == since.date
SnapshotPath(date) == <<"backend/out", "run_", date, ".parquet">>

\* sorted(backend_out.glob("run_*.parquet"), reverse=True): the dates with a file
SnapshotDates == {d \in Dates : snapshots[d].exists}
\* snapshot_files[0]
LatestDate == CHOOSE d \in SnapshotDates : \A e \in SnapshotDates : e <= d

DeltaCols == {"zip", "change_type", "score_delta", "cap_rate_delta",
              "cash_needed_delta"}
DeltaRow(zip, type, score, cap, cash) ==
    [k \in DeltaCols |->
        CASE k = "zip" -> zip
          [] k = "change_type" -> type
          [] k = "score_delta" -> score
          [] k = "cap_rate_delta" -> cap
          [] k = "cash_needed_delta" -> cash]

\* a faulty variant, without thresholds, which C6 must tell apart
SignificantAlways(score, cap, cash) == TRUE
\* the significance test of a zip present in both snapshots
Significant(score, cap, cash) ==
    \/ FGt(FAbs(score), ScoreThreshold)
    \/ FGt(FAbs(cap), CapRateThreshold)
    \/ FGt(FAbs(cash), CashThreshold)

\* the delta rows of one zip: l and r are its rows in latest and in since
NewRow(l) == DeltaRow(l["zip"], "new", l["score"], l["cap_rate"], l["cash_needed"])
RemovedRow(r) ==
    DeltaRow(r["zip"], "removed", FNeg(r["score"]), FNeg(r["cap_rate"]),
             FNeg(r["cash_needed"]))
ChangedRows(l, r) ==
    LET score == FSub(l["score"], r["score"])
        cap   == FSub(l["cap_rate"], r["cap_rate"])
        cash  == FSub(l["cash_needed"], r["cash_needed"])
    IN IF Significant(score, cap, cash)
       THEN <<DeltaRow(l["zip"], "changed", score, cap, cash)>>
       ELSE <<>>

\* lines 383-426: the outer merge on zip and the classification of its rows
DeltaRows(latest, since) ==
    LET ks == SortedKeys(ColumnSet(latest, "zip") \cup ColumnSet(since, "zip"))
    IN Concat([i \in DOMAIN ks |->
          LET ls == Matches(latest, "zip", ks[i])
              rs == Matches(since, "zip", ks[i])
          IN IF rs = <<>> THEN [j \in DOMAIN ls |-> NewRow(ls[j])]
             ELSE IF ls = <<>> THEN [j \in DOMAIN rs |-> RemovedRow(rs[j])]
             ELSE Concat([j \in DOMAIN ls |->
                     Concat([k \in DOMAIN rs |-> ChangedRows(ls[j], rs[k])])])])

\* a faulty variant, skipping a failure silently, which C7 must tell apart
DeltasResultSilent(error, detail, said) ==
    /\ exit' = Success
    /\ echo' = said
    /\ UNCHANGED <<pc, df, cfg, inp, today, target, snapshots, zipview>>
\* the command's exit and its last message: typer.Exit(1) after an error
\* message, else a normal return
DeltasResult(error, detail, said) ==
    /\ exit' = IF error = "" THEN Success ELSE Failure(error, detail)
    /\ echo' = said
    /\ UNCHANGED <<pc, df, cfg, inp, today, target, snapshots, zipview>>

\* the whole command, for one value of --since
Deltas(since) ==
    /\ pc = "idle"
    /\ IF ~ValidDate(since)
       THEN /\ DeltasResult("Invalid date format", [since |-> since], {})
            /\ UNCHANGED deltasFile
       ELSE IF SnapshotDates = {}
       THEN /\ DeltasResult("No snapshots found", [dir |-> "backend/out"], {})
            /\ UNCHANGED deltasFile
       ELSE IF ~snapshots[SinceStr(since)].exists
       THEN /\ DeltasResult("Snapshot not found",
                            [since |-> since, path |-> SnapshotPath(SinceStr(since))], {})
            /\ UNCHANGED deltasFile
       ELSE LET rows == DeltaRows(snapshots[LatestDate].data,
                                  snapshots[SinceStr(since)].data)
            IN IF rows = <<>>
               THEN /\ DeltasResult("", <<>>, {"No significant changes found."})
                    /\ UNCHANGED deltasFile
               ELSE /\ DeltasResult("", <<>>, {"Wrote deltas to backend/out/deltas.parquet"})
                    /\ deltasFile' = save_parquet([cols |-> DeltaCols, rows |-> rows])

-----------------------------------------------------------------------------
(* configurations: the defaults of config.get, and the variations checked   *)

DefaultLoan == [rate |-> 650, term_years |-> 30, down_payment_pct |-> 2000]
DefaultCosts ==
    [closing_costs_pct |-> 300, inspection |-> 500, appraisal |-> 600,
     title_insurance |-> 1000, rehab |-> 0, rehab_numeric |-> TRUE,
     reserves_months |-> 3]
DefaultAssumptions ==
    [vacancy_rate |-> 500, maintenance_pct |-> 1000, property_management_pct |-> 800,
     insurance_pct |-> 150, capex_pct |-> 500]
DefaultWeights == [cap_rate |-> 4000, cash_on_cash |-> 3000, dscr |-> 2000, price |-> 1000]

Config(allow, cap, dscr, cash, loan, costs, weights) ==
    [states_allowlist |-> allow, cap_threshold |-> cap, min_dscr |-> dscr,
     max_cash |-> cash, loan |-> loan, cash_costs |-> costs,
     assumptions |-> DefaultAssumptions, scoring_weights |-> weights]

DefaultConfig(allow) ==
    Config(allow, 500, 12000, 60000, DefaultLoan, DefaultCosts, DefaultWeights)

-----------------------------------------------------------------------------
(* input tables: what the files of one run may hold                        *)

StateOf(n) == IF n = 501 THEN "NY" ELSE "MA"
PriceOf(n) == IF n = 501 THEN 100000 ELSE 80000
RentOf(n) == IF n = 501 THEN 2500 ELSE 1400
Reps == {"int64", "object"}

\* the zip n as a file holds it: an integer, its zero-padded text, or its
\* unpadded text
Cell(rep, n) ==
    IF rep = "int64" THEN IntCell(n)
    ELSE IF rep = "object" THEN StrCell(ZFill(IntStr(n), ZipWidth))
    ELSE StrCell(IntStr(n))

\* a table with one row per listed zip
TableOf(cols, zs, row(_)) == [cols |-> cols, rows |-> [i \in DOMAIN zs |-> row(zs[i])]]

ZipSeqs == {<<>>, <<501>>, <<2139>>, <<501, 2139>>}

BaselineTable(zs, rep) ==
    TableOf({"zip", "state"}, zs, LAMBDA n : [zip |-> Cell(rep, n), state |-> StateOf(n)])
BaselineNoState(zs, rep) ==
    TableOf({"zip"}, zs, LAMBDA n : [zip |-> Cell(rep, n)])

PriceTable(zs, rep, provider) ==
    IF provider
    THEN TableOf({"zip", "median_price"}, zs,
                 LAMBDA n : [zip |-> Cell(rep, n), median_price |-> PriceOf(n)])
    ELSE TableOf({"zip", "price"}, zs,
                 LAMBDA n : [zip |-> Cell(rep, n), price |-> PriceOf(n)])
PriceTableUnnamed(zs, rep) ==
    TableOf({"zip", "list_price"}, zs,
            LAMBDA n : [zip |-> Cell(rep, n), list_price |-> PriceOf(n)])

RentTable(zs, rep, provider) ==
    IF provider
    THEN TableOf({"zip", "median_rent"}, zs,
                 LAMBDA n : [zip |-> Cell(rep, n), median_rent |-> RentOf(n)])
    ELSE TableOf({"zip", "rent"}, zs,
                 LAMBDA n : [zip |-> Cell(rep, n), rent |-> RentOf(n)])

Crosswalk(zs, rep) ==
    TableOf({"zip", "county_fips"}, zs,
            LAMBDA n : [zip |-> Cell(rep, n), county_fips |-> "25017"])
CountyTax == [cols |-> {"county_fips", "eff_tax_rate"},
              rows |-> <<[county_fips |-> "25017", eff_tax_rate |-> 120]>>]
NoCountyTax == EmptyFrame({"county_fips", "eff_tax_rate"})
TaxCsv(zs, rep) ==
    TableOf({"zip", "eff_tax_rate"}, zs,
            LAMBDA n : [zip |-> Cell(rep, n), eff_tax_rate |-> 200])

TaxProvider(zip_county, county_tax) ==
    [provider |-> TRUE, zip_county |-> zip_county, county_tax |-> county_tax,
     csv |-> EmptyFrame({"zip", "eff_tax_rate"})]
TaxLegacy(csv) ==
    [provider |-> FALSE, zip_county |-> EmptyFrame({"zip", "county_fips"}),
     county_tax |-> NoCountyTax, csv |-> csv]

InventoryFile(zs, rep) ==
    [exists |-> TRUE,
     data |-> TableOf({"zip", "inventory_hits"}, zs,
                      LAMBDA n : [zip |-> Cell(rep, n), inventory_hits |-> 3])]

Input(baselines, prices, rents, taxes, inventory) ==
    [baselines |-> baselines, prices |-> prices, rents |-> rents, taxes |-> taxes,
     inventory |-> inventory]

\* the families of the source merge
MergeBaselines ==
    {BaselineTable(zs, rep) : zs \in {<<>>, <<501>>, <<501, 2139>>}, rep \in Reps}
        \cup {BaselineNoState(<<501, 2139>>, "int64")}
MergePrices ==
    {[provider |-> TRUE, table |-> PriceTable(zs, "int64", TRUE)] : zs \in ZipSeqs}
        \cup {[provider |-> FALSE, table |-> PriceTable(zs, rep, FALSE)] :
                 zs \in ZipSeqs, rep \in Reps}
        \cup {[provider |-> FALSE, table |-> PriceTableUnnamed(<<501>>, "int64")]}
MergeRents ==
    {[provider |-> FALSE, table |-> RentTable(<<>>, "object", FALSE)],
     [provider |-> FALSE, table |-> RentTable(<<501>>, "int64", FALSE)],
     [provider |-> TRUE, table |-> RentTable(<<501, 2139>>, "int64", TRUE)]}
MergeTaxes ==
    {TaxProvider(Crosswalk(<<>>, "object"), NoCountyTax),
     TaxProvider(Crosswalk(<<2139>>, "int64"), CountyTax),
     TaxLegacy(TaxCsv(<<501>>, "int64")),
     TaxLegacy(TaxCsv(<<>>, "object"))}
MergeInventories ==
    {NoFile, InventoryFile(<<501>>, "int64"), InventoryFile(<<501>>, "object"),
     InventoryFile(<<501>>, "unpadded")}
MergeAllowLists == {{}, {"MA"}, {"MA", "NY"}}

MergeInputs ==
    {Input(b, p, r, t, v) : b \in MergeBaselines, p \in MergePrices, r \in MergeRents,
                            t \in MergeTaxes, v \in MergeInventories}

-----------------------------------------------------------------------------
(* SpecMerge: the source merge of one run (lines 37-176) on every input of  *)
(* MergeInputs and every allow-list                                        *)

NoFiles ==
    /\ today = 1
    /\ target = NoFile
    /\ snapshots = [d \in Dates |-> NoFile]
    /\ zipview = NoFile
    /\ deltasFile = NoFile

InitMerge ==
    /\ pc = "start"
    /\ df = NoTable
    /\ inp \in MergeInputs
    /\ cfg \in {DefaultConfig(allow) : allow \in MergeAllowLists}
    /\ exit = Running
    /\ echo = {}
    /\ NoFiles

NextMerge == RunLoad \/ RunValidate \/ RunAux

SpecMerge == InitMerge /\ [][NextMerge]_vars

-----------------------------------------------------------------------------
(* the source merge: C8, C9, C10                                           *)

\* the zips of a raw table, in the 5-character form
ZipsOf(t) == {ZFill(AsStr(t.rows[i]["zip"]), ZipWidth) : i \in DOMAIN t.rows}

\* the zips the resolved tax table holds: the crosswalk's when the county
\* rates are loaded through it, the legacy CSV's otherwise
TaxZips(src) ==
    IF src.provider
    THEN (IF src.county_tax.rows # <<>> THEN ZipsOf(src.zip_county) ELSE {})
    ELSE ZipsOf(src.csv)

SignalZips(i) == ZipsOf(i.prices.table) \cup ZipsOf(i.rents.table) \cup TaxZips(i.taxes)

\* the zips of the baseline records that survive the allow-list
SurvivingZips(i, c) ==
    {ZFill(AsStr(i.baselines.rows[k]["zip"]), ZipWidth) :
        k \in {j \in DOMAIN i.baselines.rows :
                 "state" \in i.baselines.cols
                     => i.baselines.rows[j]["state"] \in c.states_allowlist}}

Merged == pc \in {"merged", "validated", "joined"}

\* C8 (as claimed): every join on zip compares 5-character zero-padded zips on
\* both sides: a zip that price, rent, tax or inventory table stores as the
\* integer 501 is joined to the record "00501", the inventory join included,
\* and every zip of the table is a 5-character string.
C8_EveryJoinNormalised ==
    /\ ~(pc = "failed" /\ exit.error = "MergeDtypeMismatch")
    /\ Merged =>
         \A k \in DOMAIN df.rows :
            LET r == df.rows[k]
            IN /\ Len(r["zip"]) = ZipWidth
               /\ ("price" \in df.cols /\ r["zip"] \in ZipsOf(inp.prices.table))
                     => ~IsNaN(r["price"])
               /\ ("rent" \in df.cols /\ r["zip"] \in ZipsOf(inp.rents.table))
                     => ~IsNaN(r["rent"])
    /\ pc = "joined" =>
         \A k \in DOMAIN df.rows :
            (inp.inventory.exists /\ df.rows[k]["zip"] \in ZipsOf(inp.inventory.data))
                => df.rows[k]["inventory_hits"] = 3

\* the joins of price, rent, tax and baseline do normalise both sides: the part
\* of C8 that holds
C8_SignalJoinsNormalised ==
    Merged =>
         \A k \in DOMAIN df.rows :
            LET r == df.rows[k]
            IN /\ Len(r["zip"]) = ZipWidth
               /\ ("price" \in df.cols /\ r["zip"] \in ZipsOf(inp.prices.table))
                     => ~IsNaN(r["price"])
               /\ ("rent" \in df.cols /\ r["zip"] \in ZipsOf(inp.rents.table))
                     => ~IsNaN(r["rent"])

\* C9: a zip is in the merged table exactly when a baseline record of it
\* survives the allow-list and at least one of the price, rent and tax tables
\* holds it.
C9_MergedZips ==
    Merged => ColumnSet(df, "zip") = SurvivingZips(inp, cfg) \cap SignalZips(inp)

\* C9 witness: the merged table holds a zip that only the price table has, and
\* a signal zip without a baseline record stayed out.
C9_Witness ==
    /\ pc = "merged"
    /\ \E z \in ColumnSet(df, "zip") :
          /\ z \in ZipsOf(inp.prices.table)
          /\ z \notin ZipsOf(inp.rents.table) \cup TaxZips(inp.taxes)
    /\ \E z \in SignalZips(inp) : z \notin ZipsOf(inp.baselines)

C11_AuxJoinsKeepRecords ==
    [][(pc = "validated" /\ pc' = "joined") =>
          /\ ColumnSet(df', "zip") = ColumnSet(df, "zip")
          /\ Len(df'.rows) >= Len(df.rows)
          /\ \A k \in DOMAIN df'.rows :
                LET r == df'.rows[k]
                IN /\ ~IsNaN(r["inventory_hits"])
                   /\ (~inp.inventory.exists \/ r["zip"] \notin ZipsOf(inp.inventory.data))
                         => r["inventory_hits"] = 0
                   /\ r["crime_index"] = 10000
      ]_vars

\* both signals attached: one record found its inventory row, another had
\* none and got 0
C11_Witness ==
    /\ pc = "joined"
    /\ inp.inventory.exists
    /\ \E k \in DOMAIN df.rows : df.rows[k]["inventory_hits"] = 3
    /\ \E k \in DOMAIN df.rows :
          /\ df.rows[k]["zip"] \notin ZipsOf(inp.inventory.data)
          /\ df.rows[k]["inventory_hits"] = 0

\* a record enters the income model once the table is validated
EntersIncomeModel == pc \in {"validated", "joined"}

\* C12 (as claimed): every record entering the income model has a tax rate,
\* which is 0.015 whenever none is resolvable for it (no tax table, an empty
\* one, or one without the record's zip), and the warning is printed when the
\* default is substituted.
C12_TaxRateResolved ==
    EntersIncomeModel =>
        \A k \in DOMAIN df.rows :
           LET r == df.rows[k]
           IN /\ ~IsNaN(r["eff_tax_rate"])
              /\ r["zip"] \notin TaxZips(inp.taxes) =>
                    /\ r["eff_tax_rate"] = 150
                    /\ "eff_tax_rate not found, defaulting to 0.015" \in echo

\* the part of C12 that holds: without any tax row the merged table has no
\* tax column, and every record gets 0.015 with the warning
C12_DefaultWithoutTaxTable ==
    (EntersIncomeModel /\ TaxZips(inp.taxes) = {}) =>
        /\ "eff_tax_rate not found, defaulting to 0.015" \in echo
        /\ \A k \in DOMAIN df.rows : df.rows[k]["eff_tax_rate"] = 150

-----------------------------------------------------------------------------
(* SpecRank: the income model, the financing model, the hard filter and the *)
(* ranking of one run (lines 188-235) on every merged table of RankTables   *)
(* and every configuration of RankConfigs                                   *)

MaxRows == 2

AllStates == {"NY", "MA"}

JoinedCols == {"zip", "state", "price", "rent", "eff_tax_rate", "inventory_hits",
               "crime_index"}
JoinedRow(n, st, price, rent, tax) ==
    [zip |-> ZFill(IntStr(n), ZipWidth), state |-> st, price |-> price, rent |-> rent,
     eff_tax_rate |-> tax, inventory_hits |-> 0, crime_index |-> NeutralCrime]

\* what the i-th row of a merged table may hold: a missing price or rent (the
\* zip is absent from that table), a zero or a value; a missing tax rate
RankRowChoices(i) ==
    IF i = 1
    THEN {JoinedRow(501, "NY", p, r, t) :
             p \in {NaN, 0, 100000}, r \in {NaN, 0, 2500}, t \in {150, NaN}}
    ELSE IF i = 2
    THEN {JoinedRow(2139, st, p, r, 150) :
             st \in AllStates, p \in {NaN, 80000}, r \in {NaN, 2000}}
    ELSE {JoinedRow(10000 + i, "NY", p, 2500, 150) : p \in {NaN, 120000}}

RECURSIVE RowSeqs(_)
RowSeqs(k) ==
    IF k = 0 THEN {<<>>}
    ELSE {Append(s, r) : s \in RowSeqs(k - 1), r \in RankRowChoices(k)}

RankTables ==
    {[cols |-> JoinedCols, rows |-> rows] :
        rows \in UNION {RowSeqs(k) : k \in 0 .. MaxRows}}

ZeroCosts ==
    [closing_costs_pct |-> 0, inspection |-> 0, appraisal |-> 0,
     title_insurance |-> 0, rehab |-> 0, rehab_numeric |-> TRUE,
     reserves_months |-> 0]
ZeroRateLoan == [rate |-> 0, term_years |-> 30, down_payment_pct |-> 2000]
ZeroTermLoan == [rate |-> 0, term_years |-> 0, down_payment_pct |-> 2000]
AllCashLoan == [rate |-> 650, term_years |-> 30, down_payment_pct |-> 10000]

RankConfigs ==
    {DefaultConfig(AllStates),
     Config(AllStates, 500, 12000, 20000, DefaultLoan, DefaultCosts, DefaultWeights),
     Config(AllStates, 500, 20000, 60000, DefaultLoan, DefaultCosts, DefaultWeights),
     Config(AllStates, 500, 12000, 60000, ZeroRateLoan, DefaultCosts, DefaultWeights),
     Config(AllStates, 0, 0, 60000, AllCashLoan, ZeroCosts, DefaultWeights),
     Config(AllStates, 500, 12000, 60000, ZeroTermLoan, DefaultCosts, DefaultWeights),
     Config(AllStates, 0, 0, 60000, AllCashLoan, DefaultCosts,
            [cap_rate |-> 4000, cash_on_cash |-> 3000, dscr |-> 2000, price |-> 0])}

InitRank ==
    /\ pc = "joined"
    /\ df \in RankTables
    /\ inp = [joined |-> df]
    /\ cfg \in RankConfigs
    /\ exit = Running
    /\ echo = {}
    /\ NoFiles

NextRank == RunIncome \/ RunFinance \/ RunFilter \/ RunRank

SpecRank == InitRank /\ [][NextRank]_vars

-----------------------------------------------------------------------------
(* the hard filter and the ratios, under SpecRank                           *)

\* how many rows of a table equal r
Count(rows, r) == Cardinality({i \in DOMAIN rows : rows[i] = r})

\* the three clauses of the claim, on one record
AllThreeHold(r) ==
    /\ ~IsNaN(r["cap_rate"]) /\ r["cap_rate"] >= cfg.cap_threshold
    /\ ~IsNaN(r["cash_needed"]) /\ r["cash_needed"] <= cfg.max_cash
    /\ ~IsNaN(r["dscr"]) /\ r["dscr"] >= cfg.min_dscr

\* x * pct and a + b on cells that may be missing
Times(x, pct) == IF x = NaN \/ pct = NaN THEN NaN ELSE (x * pct) \div 10000
Plus(a, b) == IF a = NaN \/ b = NaN THEN NaN ELSE a + b
Minus(a, b) == IF a = NaN \/ b = NaN THEN NaN ELSE a - b

AfterIncomeModel == pc \in {"income", "financed", "filtered", "ranked"}

\* C14: in every record that compute_caps has produced, and through the
\* financing, filter and score stages, operating_expenses is the sum of
\* tax_expense, insurance_expense, repairs, management and capex, where
\* management is egi x property_management_pct and insurance, repairs and
\* capex are price x their percentage, and noi is egi - operating_expenses.
C14_ExpensesItemized ==
    AfterIncomeModel =>
        \A k \in DOMAIN df.rows :
           LET r == df.rows[k]
               a == cfg.assumptions
           IN /\ r["operating_expenses"] =
                     Plus(Plus(Plus(Plus(r["tax_expense"], r["insurance_expense"]),
                                    r["repairs"]), r["management"]), r["capex"])
              /\ r["management"] = Times(r["egi"], a.property_management_pct)
              /\ r["insurance_expense"] = Times(r["price"], a.insurance_pct)
              /\ r["repairs"] = Times(r["price"], a.maintenance_pct)
              /\ r["capex"] = Times(r["price"], a.capex_pct)
              /\ r["tax_expense"] = Times(r["price"], r["eff_tax_rate"])
              /\ r["noi"] = Minus(r["egi"], r["operating_expenses"])

\* a record of price 100000 and rent 2500 with its five expense lines
C14_Witness ==
    /\ pc = "income"
    /\ \E k \in DOMAIN df.rows :
          LET r == df.rows[k]
          IN /\ r["price"] = 100000 /\ r["egi"] = 28500
             /\ r["tax_expense"] = 1500 /\ r["insurance_expense"] = 1500
             /\ r["repairs"] = 10000 /\ r["management"] = 2280 /\ r["capex"] = 5000
             /\ r["operating_expenses"] = 20280 /\ r["noi"] = 8220

\* C15 (as claimed): every record with price > 0 has a finite cap_rate equal
\* to noi / price, and every record with price = 0 has cap_rate = 0.
C15_Original ==
    AfterIncomeModel =>
        \A k \in DOMAIN df.rows :
           LET r == df.rows[k]
           IN /\ (r["price"] # NaN /\ r["price"] > 0) =>
                    /\ r["noi"] # NaN
                    /\ r["cap_rate"] = (r["noi"] * 10000) \div r["price"]
              /\ r["price"] = 0 => r["cap_rate"] = 0

\* C15 (amended): every record with price > 0 and a noi that is not missing
\* has a finite cap_rate equal to noi / price; a record with price > 0 whose
\* noi is missing (no rent or no tax rate resolved) has cap_rate = 0, and so
\* has every record with price = 0.
C15_CapRate ==
    AfterIncomeModel =>
        \A k \in DOMAIN df.rows :
           LET r == df.rows[k]
           IN /\ (r["price"] # NaN /\ r["price"] > 0 /\ r["noi"] # NaN) =>
                    /\ r["cap_rate"] = (r["noi"] * 10000) \div r["price"]
                    /\ r["cap_rate"] > -2000000000 /\ r["cap_rate"] < 2000000000
              /\ (r["price"] # NaN /\ r["price"] > 0 /\ r["noi"] = NaN) =>
                    r["cap_rate"] = 0
              /\ r["price"] = 0 => r["cap_rate"] = 0

\* one record with price 0 and cap_rate 0 next to one with a price and a
\* cap_rate that is not 0
C15_Witness ==
    /\ pc = "income"
    /\ \E k \in DOMAIN df.rows :
          df.rows[k]["price"] = 0 /\ df.rows[k]["noi"] > 0 /\ df.rows[k]["cap_rate"] = 0
    /\ \E k \in DOMAIN df.rows :
          /\ df.rows[k]["price"] = 80000 /\ df.rows[k]["noi"] # NaN
          /\ df.rows[k]["cap_rate"] # 0

\* a ranked record without its score
Unscored(r) == [k \in (DOMAIN r) \ {"score"} |-> r[k]]

\* C1: the filter step keeps exactly the records of the fully-augmented table
\* for which cap_rate >= cap_threshold, cash_needed <= max_cash and
\* dscr >= min_dscr all hold (none failing a clause is kept, none passing all
\* three is left out), and the ranking step that follows neither drops nor
\* adds a record, so the ranked output holds exactly those records.
C1_FilterExact ==
    [][ /\ (pc = "financed" /\ pc' = "filtered") =>
            /\ \A i \in DOMAIN df.rows :
                  Count(df'.rows, df.rows[i]) =
                      IF AllThreeHold(df.rows[i]) THEN Count(df.rows, df.rows[i]) ELSE 0
            /\ \A j \in DOMAIN df'.rows :
                  AllThreeHold(df'.rows[j]) /\ Count(df.rows, df'.rows[j]) > 0
        /\ (pc = "filtered" /\ pc' = "ranked") =>
            /\ Len(df'.rows) = Len(df.rows)
            /\ \A i \in DOMAIN df.rows :
                  Cardinality({j \in DOMAIN df'.rows : Unscored(df'.rows[j]) = df.rows[i]})
                      = Count(df.rows, df.rows[i])
            /\ \A j \in DOMAIN df'.rows : AllThreeHold(df'.rows[j])
      ]_vars

\* a ranked output that kept one record of the merged table and excluded another
C1_Witness ==
    /\ pc = "ranked"
    /\ df.rows # <<>>
    /\ Len(df.rows) < Len(inp.joined.rows)

\* C2: cap_rate after compute_caps, and dscr and cash_on_cash after
\* attach_financing_constraints, are finite in every record, whatever the
\* input (zero or missing price, zero debt service, zero cash needed).
C2_RatiosFinite ==
    /\ pc \in {"income", "financed", "filtered", "ranked"} =>
          \A i \in DOMAIN df.rows : IsFinite(df.rows[i]["cap_rate"])
    /\ pc \in {"financed", "filtered", "ranked"} =>
          \A i \in DOMAIN df.rows :
              IsFinite(df.rows[i]["dscr"]) /\ IsFinite(df.rows[i]["cash_on_cash"])

\* a record whose divisions were by zero (price 0, debt service 0, cash needed 0)
\* and one whose price is missing, both with ratios replaced by 0
C2_Witness ==
    /\ pc = "financed"
    /\ \E i \in DOMAIN df.rows :
          LET r == df.rows[i]
          IN /\ r["price"] = 0 /\ r["noi"] > 0 /\ r["cap_rate"] = 0
             /\ r["annual_debt_service"] = 0 /\ r["dscr"] = 0
             /\ r["cash_needed"] = 0 /\ r["cash_on_cash"] = 0

-----------------------------------------------------------------------------
(* Spec: the commands run and deltas, one after the other, over the files   *)
(* of backend/out and the calendar                                          *)

\* a crosswalk that places the zip n in two counties, and their tax rates
CrosswalkTwoCounties(n, rep) ==
    [cols |-> {"zip", "county_fips"},
     rows |-> <<[zip |-> Cell(rep, n), county_fips |-> "25017"],
                [zip |-> Cell(rep, n), county_fips |-> "25025"]>>]
TwoCountyTax ==
    [cols |-> {"county_fips", "eff_tax_rate"},
     rows |-> <<[county_fips |-> "25017", eff_tax_rate |-> 120],
                [county_fips |-> "25025", eff_tax_rate |-> 200]>>]

ProviderPrices == [provider |-> TRUE, table |-> PriceTable(<<501, 2139>>, "int64", TRUE)]
ProviderRents == [provider |-> TRUE, table |-> RentTable(<<501, 2139>>, "int64", TRUE)]

\* the usual files: two baseline zips, provider caches, the legacy tax CSV
UsualInput ==
    Input(BaselineTable(<<501, 2139>>, "int64"), ProviderPrices, ProviderRents,
          TaxLegacy(TaxCsv(<<501>>, "int64")), NoFile)
\* a legacy price CSV whose price column has another name
UnnamedPriceInput ==
    Input(BaselineTable(<<501, 2139>>, "int64"),
          [provider |-> FALSE, table |-> PriceTableUnnamed(<<501>>, "int64")],
          ProviderRents, TaxLegacy(TaxCsv(<<501>>, "int64")), NoFile)
\* an inventory CSV whose zips pandas reads as integers
IntInventoryInput ==
    Input(BaselineTable(<<501, 2139>>, "int64"), ProviderPrices, ProviderRents,
          TaxLegacy(TaxCsv(<<501>>, "int64")), InventoryFile(<<501>>, "int64"))
\* a crosswalk with one zip in two counties
TwoCountyInput ==
    Input(BaselineTable(<<501, 2139>>, "int64"), ProviderPrices, ProviderRents,
          TaxProvider(CrosswalkTwoCounties(501, "int64"), TwoCountyTax), NoFile)

TightCashConfig ==
    Config(AllStates, 500, 12000, 20000, DefaultLoan, DefaultCosts, DefaultWeights)

\* the invocations of run: the files it finds and the configuration it reads
Invocations ==
    {[inp |-> UsualInput, cfg |-> DefaultConfig(AllStates)],
     [inp |-> UsualInput, cfg |-> TightCashConfig],
     [inp |-> UnnamedPriceInput, cfg |-> DefaultConfig(AllStates)],
     [inp |-> IntInventoryInput, cfg |-> DefaultConfig(AllStates)],
     [inp |-> TwoCountyInput, cfg |-> DefaultConfig(AllStates)]}

\* the values of --since: a date of the calendar, or text that is not a date
SinceArgs ==
    {[format |-> "%Y-%m-%d", date |-> d] : d \in Dates}
        \cup {[format |-> "%d/%m/%Y", date |-> 1]}

\* lines 28-50: the command starts, reads its configuration and finds its files
RunStart ==
    /\ pc = "idle"
    /\ \E v \in Invocations :
          /\ inp' = v.inp
          /\ cfg' = v.cfg
    /\ pc' = "start"
    /\ df' = NoTable
    /\ exit' = Running
    /\ echo' = {}
    /\ UNCHANGED <<today, target, snapshots, zipview, deltasFile>>

Init ==
    /\ pc = "idle"
    /\ df = NoTable
    /\ cfg = NoConfig
    /\ inp = NoInput
    /\ exit = Running
    /\ echo = {}
    /\ NoFiles

Run ==
    \/ RunStart
    \/ RunLoad
    \/ RunValidate
    \/ RunAux
    \/ RunIncome
    \/ RunFinance
    \/ RunFilter
    \/ RunRank
    \/ RunWriteTarget
    \/ RunWriteSnapshot
    \/ RunWriteDuckdb
    \/ RunExit

Next ==
    \/ Run
    \/ \E since \in SinceArgs : Deltas(since)
    \/ Tick

Spec == Init /\ [][Next]_vars

-----------------------------------------------------------------------------
(* the persisted files, under Spec                                          *)

\* C3 (as claimed): once the snapshot of a date exists, no step of any later
\* command changes its contents, a second run on the same date included.
C3_SnapshotNeverChanges ==
    [][\A d \in Dates : snapshots[d].exists => snapshots'[d] = snapshots[d]]_vars

\* the part of C3 that holds: deltas changes no snapshot, and a run changes
\* only the snapshot of the current date
C3_OtherSnapshotsKept ==
    [][\A d \in Dates :
          (snapshots[d].exists /\ snapshots'[d] # snapshots[d]) =>
              d = today /\ pc = "wrote_target"]_vars

\* C4: a run writes target_zips.parquet, its dated snapshot and the table
\* zipview only once merge, validation, income model, financing model, filter
\* and rank have all completed, and what it writes is the ranked table; a run
\* that aborts leaves every persisted output as it was.
C4_NoEarlyWrite ==
    [][ /\ target' # target => pc = "ranked" /\ target'.data = df
        /\ snapshots' # snapshots => pc = "wrote_target" /\ snapshots'[today].data = df
        /\ zipview' # zipview => pc = "wrote_snapshot" /\ zipview'.data = df
        /\ pc' = "failed" => Outputs' = Outputs
      ]_vars

\* a run aborted by the validation of the merged table while the outputs of an
\* earlier run exist
C4_Witness ==
    /\ pc = "failed"
    /\ exit.error = "MissingRequiredColumns"
    /\ target.exists /\ snapshots[today].exists /\ zipview.exists
    /\ target.data.rows # <<>>

\* C13: when the merged table lacks the price column or the rent column, run
\* aborts with the validation error, whose message lists exactly the required
\* columns that are missing and the columns that were available; after the
\* error the command only ends: no income, financing, filter or write step
\* follows and no file changes.
C13_ValidationAborts ==
    [][ /\ (pc = "merged" /\ ~({"price", "rent"} \subseteq df.cols)) =>
              /\ pc' = "failed"
              /\ exit'.code = 1
              /\ exit'.error = "MissingRequiredColumns"
              /\ exit'.detail.missing = {"price", "rent"} \ df.cols
              /\ exit'.detail.available = df.cols
              /\ Outputs' = Outputs
        /\ pc = "failed" => pc' = "idle" /\ df' = NoTable /\ Outputs' = Outputs
      ]_vars

\* the run has stopped on a price table whose price column has another name
C13_Witness ==
    /\ pc = "failed"
    /\ exit.error = "MissingRequiredColumns"
    /\ exit.detail.missing = {"price"}
    /\ exit.detail.available = {"zip", "state", "list_price", "rent", "eff_tax_rate"}

\* the three failures of deltas, for one value of --since
NotADate(since) == since.format # "%Y-%m-%d"
NoSnapshotAtAll == \A d \in Dates : ~snapshots[d].exists
SinceSnapshotMissing(since) ==
    ~NotADate(since) /\ ~NoSnapshotAtAll /\ ~snapshots[since.date].exists

\* C7: when the since argument is not a date, or no snapshot exists, or the
\* snapshot of the since date does not exist, deltas ends with a non-zero
\* exit and writes nothing (deltas.parquet and every snapshot stay as they
\* were); in the third case the message names the requested date and the
\* snapshot file that was expected.
C7_MissingSnapshotFails ==
    [][\A since \in SinceArgs :
          (Deltas(since)
             /\ (NotADate(since) \/ NoSnapshotAtAll \/ SinceSnapshotMissing(since))) =>
              /\ exit'.code # 0
              /\ Outputs' = Outputs
              /\ SinceSnapshotMissing(since) =>
                    /\ exit'.detail.since = since
                    /\ exit'.detail.path = <<"backend/out", "run_", since.date, ".parquet">>
      ]_vars

\* deltas has failed for a since date without snapshot while the snapshot of
\* another date exists
C7_Witness ==
    /\ pc = "idle"
    /\ exit.code = 1
    /\ exit.error = "Snapshot not found"
    /\ ~snapshots[exit.detail.since.date].exists
    /\ \E d \in Dates : snapshots[d].exists

-----------------------------------------------------------------------------
(* SpecDelta: deltas on every pair of snapshots of DeltaTables, the since   *)
(* snapshot at date 1 and the latest at date 2                              *)

\* the columns of a snapshot that deltas reads
SnapshotCols == {"zip", "score", "cap_rate", "cash_needed"}
SnapshotRow(n, score, cap, cash) ==
    [zip |-> ZFill(IntStr(n), ZipWidth), score |-> score, cap_rate |-> cap,
     cash_needed |-> cash]

\* zip 00501 as the since snapshot holds it, and as the latest may: unchanged,
\* or moved by less than, exactly, or more than a threshold
SinceRows501 == {<<>>, <<SnapshotRow(501, 100000, 800, 30000)>>}
LatestRows501 ==
    {<<>>} \cup
    {<<SnapshotRow(501, score, cap, cash)>> :
        score \in {100000, 100100, 100200, 99800},
        cap \in {800, 810, 811},
        cash \in {30000, 30100, 30101, 29899}}
Rows601 == {<<>>, <<SnapshotRow(601, 50000, 800, 30000)>>}

DeltaTables(rows501) ==
    {[cols |-> SnapshotCols, rows |-> a \o b] : a \in rows501, b \in Rows601}

InitDelta ==
    /\ pc = "idle"
    /\ df = NoTable
    /\ cfg = NoConfig
    /\ inp = NoInput
    /\ exit = Running
    /\ echo = {}
    /\ today = 2
    /\ target = NoFile
    /\ zipview = NoFile
    /\ deltasFile = NoFile
    /\ \E since \in DeltaTables(SinceRows501), latest \in DeltaTables(LatestRows501) :
          snapshots = [d \in Dates |-> IF d = 1 THEN save_parquet(since)
                                       ELSE IF d = 2 THEN save_parquet(latest)
                                       ELSE NoFile]

NextDelta == \E since \in SinceArgs : Deltas(since)

SpecDelta == InitDelta /\ [][NextDelta]_vars

-----------------------------------------------------------------------------
(* the delta records: C5 under Spec, C6 under SpecDelta                     *)

\* deltas gets as far as comparing two snapshots
Compares(since) == ~NotADate(since) /\ snapshots[since.date].exists
\* the snapshot of the most recent date
Newest == CHOOSE d \in Dates : snapshots[d].exists /\ \A e \in Dates : e > d => ~snapshots[e].exists

\* the records the invocation that just ended has yielded: none when it found
\* no significant change, else the contents of the deltas.parquet it wrote
Yielded ==
    IF "No significant changes found." \in echo' THEN <<>> ELSE deltasFile'.data.rows
YieldedFor(zip) == {k \in DOMAIN Yielded : Yielded[k]["zip"] = zip}

Record(zip, type, score, cap, cash) ==
    [zip |-> zip, change_type |-> type, score_delta |-> score, cap_rate_delta |-> cap,
     cash_needed_delta |-> cash]

\* C5 (as claimed): every zip of the latest snapshot that the since snapshot
\* lacks yields exactly one record, classified "new", whose three deltas are
\* the latest values; every zip of the since snapshot that the latest lacks
\* yields exactly one record, classified "removed", whose three deltas are the
\* negated since values; no threshold applies to either.
C5_NewAndRemoved ==
    [][\A since \in SinceArgs : (Deltas(since) /\ Compares(since)) =>
          LET latest == snapshots[Newest].data.rows
              old == snapshots[since.date].data.rows
          IN /\ \A i \in DOMAIN latest :
                   (\A j \in DOMAIN old : old[j]["zip"] # latest[i]["zip"]) =>
                       /\ Cardinality(YieldedFor(latest[i]["zip"])) = 1
                       /\ \E k \in DOMAIN Yielded :
                             Yielded[k] = Record(latest[i]["zip"], "new",
                                                 latest[i]["score"], latest[i]["cap_rate"],
                                                 latest[i]["cash_needed"])
             /\ \A j \in DOMAIN old :
                   (\A i \in DOMAIN latest : latest[i]["zip"] # old[j]["zip"]) =>
                       /\ Cardinality(YieldedFor(old[j]["zip"])) = 1
                       /\ \E k \in DOMAIN Yielded :
                             Yielded[k] = Record(old[j]["zip"], "removed",
                                                 0 - old[j]["score"], 0 - old[j]["cap_rate"],
                                                 0 - old[j]["cash_needed"])
      ]_vars

Abs(x) == IF x < 0 THEN 0 - x ELSE x

\* the example of the specification: A = {00501: 10}, B = {00501: 10.02, 00601: 5}
ExampleA == <<SnapshotRow(501, 100000, 800, 30000)>>
ExampleB == <<SnapshotRow(501, 100200, 800, 30000), SnapshotRow(601, 50000, 800, 30000)>>

\* C6: a zip of both snapshots yields a record classified "changed", with the
\* three deltas latest minus since, exactly when |score_delta| > 0.01 or
\* |cap_rate_delta| > 0.001 or |cash_needed_delta| > 100; below or at the
\* three thresholds it yields no record at all.  Comparing B with A yields
\* 00501 changed by 0.02 and 00601 new with 5.
C6_ChangedIffSignificant ==
    [][\A since \in SinceArgs : (Deltas(since) /\ Compares(since)) =>
          LET latest == snapshots[Newest].data.rows
              old == snapshots[since.date].data.rows
              score(l, r) == l["score"] - r["score"]
              cap(l, r) == l["cap_rate"] - r["cap_rate"]
              cash(l, r) == l["cash_needed"] - r["cash_needed"]
              over(l, r) == \/ Abs(score(l, r)) > 100
                            \/ Abs(cap(l, r)) > 10
                            \/ Abs(cash(l, r)) > 100
          IN /\ \A i \in DOMAIN latest : \A j \in DOMAIN old :
                   latest[i]["zip"] = old[j]["zip"] =>
                       /\ over(latest[i], old[j]) <=>
                             \E k \in DOMAIN Yielded :
                                 Yielded[k] = Record(latest[i]["zip"], "changed",
                                                     score(latest[i], old[j]),
                                                     cap(latest[i], old[j]),
                                                     cash(latest[i], old[j]))
                       /\ \A k \in YieldedFor(latest[i]["zip"]) :
                             Yielded[k]["change_type"] = "changed"
                       /\ (\A m \in DOMAIN latest : \A n \in DOMAIN old :
                              latest[m]["zip"] = old[n]["zip"] => ~over(latest[m], old[n]))
                             => YieldedFor(latest[i]["zip"]) = {}
             /\ (latest = ExampleB /\ old = ExampleA) =>
                   Yielded = <<Record(<<0, 0, 5, 0, 1>>, "changed", 200, 0, 0),
                               Record(<<0, 0, 6, 0, 1>>, "new", 50000, 800, 30000)>>
      ]_vars

\* deltas has compared the example's B with its A
C6_Witness ==
    /\ pc = "idle"
    /\ exit = Success
    /\ snapshots[1].data.rows = ExampleA
    /\ snapshots[2].data.rows = ExampleB
    /\ deltasFile.exists
    /\ Len(deltasFile.data.rows) = 2

\* the scores of a table, in row order
Scores(t) == [k \in DOMAIN t.rows |-> t.rows[k]["score"]]

\* C20 (as claimed): in the ranked table that run persists, the score of
\* every row is >= the score of the row after it, and the sort neither adds
\* nor removes rows.
C20_SortedDescending ==
    pc = "ranked" =>
        /\ \A k \in 1..(Len(df.rows) - 1) :
              /\ Scores(df)[k] # NaN
              /\ Scores(df)[k + 1] # NaN
              /\ Scores(df)[k] >= Scores(df)[k + 1]
        /\ Len(df.rows) <= Len(inp.joined.rows)

\* the part of C20 that holds: the rows with a defined score come first, in
\* descending order of score
C20_SortedWhereDefined ==
    pc = "ranked" =>
        \A k \in 1..(Len(df.rows) - 1) :
           \/ Scores(df)[k + 1] = NaN
           \/ Scores(df)[k] # NaN /\ Scores(df)[k] >= Scores(df)[k + 1]

\* the target file holds the ranked table as it was sorted
C20_TargetIsRanked ==
    pc = "wrote_target" => target.data = df

-----------------------------------------------------------------------------
(* SpecMortgage: one call of finance.mortgage_payment, on every combination *)
(* of the principals, rates and terms below                                 *)

Principals == {0, 1, 1000, 64000, 80000, 96000, NaN}
Rates == {0, 300, 600}
Terms == {0, 1, 15, 30}

InitMortgage ==
    /\ pc = "call"
    /\ inp \in [principal : Principals, rate : Rates, term_years : Terms]
    /\ df = NoTable
    /\ cfg = NoConfig
    /\ exit = Running
    /\ echo = {}
    /\ NoFiles

\* the call returns its value or leaves with ZeroDivisionError
MortgageCall ==
    /\ pc = "call"
    /\ IF MortgageRaises(inp.principal, inp.rate, inp.term_years)
       THEN Abort("ZeroDivisionError", [what |-> "mortgage_payment"])
       ELSE /\ pc' = "returned"
            /\ exit' = [code |-> 0, error |-> "",
                        detail |-> [value |-> mortgage_payment(inp.principal, inp.rate,
                                                               inp.term_years)]]
            /\ UNCHANGED <<df, cfg, inp, today, target, snapshots, zipview, deltasFile,
                           echo>>

NextMortgage == MortgageCall

SpecMortgage == InitMortgage /\ [][NextMortgage]_vars

\* C16 (as claimed): with principal 0 the call returns 0 for every rate and
\* term; with rate 0 and a principal P > 0 it returns P / (T x 12) for every
\* term T; in both cases it returns and does not raise.
C16_SpecialCases ==
    /\ inp.principal = 0 =>
          /\ pc # "failed"
          /\ pc = "returned" => exit.detail.value = 0
    /\ (inp.principal # NaN /\ inp.principal > 0 /\ inp.rate = 0) =>
          /\ pc # "failed"
          /\ pc = "returned" =>
                exit.detail.value = inp.principal \div (inp.term_years * 12)

\* the part of C16 that holds: the same, for terms of at least one year
C16_SpecialCasesPositiveTerm ==
    inp.term_years > 0 => C16_SpecialCases

-----------------------------------------------------------------------------
(* SpecFinance: finance.attach_financing_constraints on one-record tables   *)
(* with and without the tax_expense and insurance_expense columns           *)

FinanceTable(price, noi, tax, optional) ==
    LET cols == {"price", "noi"} \cup optional
        row == [c \in cols |->
                  CASE c = "price" -> price
                    [] c = "noi" -> noi
                    [] c = "tax_expense" -> tax
                    [] c = "insurance_expense" -> Times(price, 150)]
    IN [cols |-> cols, rows |-> <<row>>]

FinanceTables ==
    {FinanceTable(price, noi, tax, optional) :
        price \in {NaN, 0, 100000}, noi \in {NaN, 8220}, tax \in {NaN, 1500},
        optional \in SUBSET {"tax_expense", "insurance_expense"}}

RehabCosts == [DefaultCosts EXCEPT !.rehab = 5000]
RehabPerZipCosts == [DefaultCosts EXCEPT !.rehab = "per_zip", !.rehab_numeric = FALSE]

FinanceConfigs ==
    {DefaultConfig(AllStates),
     Config(AllStates, 500, 12000, 60000, DefaultLoan, RehabCosts, DefaultWeights),
     Config(AllStates, 500, 12000, 60000, DefaultLoan, RehabPerZipCosts, DefaultWeights),
     Config(AllStates, 500, 12000, 60000, ZeroRateLoan, ZeroCosts, DefaultWeights),
     Config(AllStates, 500, 12000, 60000, ZeroTermLoan, DefaultCosts, DefaultWeights)}

InitFinance ==
    /\ pc = "income"
    /\ df \in FinanceTables
    /\ inp = [income |-> df]
    /\ cfg \in FinanceConfigs
    /\ exit = Running
    /\ echo = {}
    /\ NoFiles

NextFinance == RunFinance

SpecFinance == InitFinance /\ [][NextFinance]_vars

\* a cell of the table handed to attach_financing_constraints, 0 when the
\* table does not have the column
Monthly(col) ==
    IF col \notin inp.income.cols THEN 0
    ELSE LET x == inp.income.rows[1][col] IN IF x = NaN THEN NaN ELSE x \div 12

\* C17: in every record that attach_financing_constraints has produced,
\* cash_needed = down_payment + price x closing_costs_pct + rehab_cost +
\* reserves + inspection + appraisal + title_insurance, with down_payment =
\* price x down_payment_pct, reserves = monthly_piti x reserves_months,
\* monthly_piti = monthly_payment + tax_expense/12 + insurance_expense/12
\* (a term is 0 when its column is absent), and rehab_cost the configured
\* rehab value when it is numeric and 0 otherwise.
C17_CashNeeded ==
    pc = "financed" =>
        \A k \in DOMAIN df.rows :
           LET r == df.rows[k]
               c == cfg.cash_costs
           IN /\ r["cash_needed"] =
                     Plus(Plus(Plus(Plus(Plus(Plus(r["down_payment"],
                         Times(r["price"], c.closing_costs_pct)), r["rehab_cost"]),
                         r["reserves"]), c.inspection), c.appraisal), c.title_insurance)
              /\ r["down_payment"] = Times(r["price"], cfg.loan.down_payment_pct)
              /\ r["reserves"] =
                     (IF r["monthly_piti"] = NaN THEN NaN
                      ELSE r["monthly_piti"] * c.reserves_months)
              /\ r["monthly_piti"] =
                     Plus(Plus(r["monthly_payment"], Monthly("tax_expense")),
                          Monthly("insurance_expense"))
              /\ r["rehab_cost"] = (IF c.rehab_numeric THEN c.rehab ELSE 0)

\* a record of price 100000 without a tax_expense column, under a rehab
\* setting that is not a number: 20000 down, 3000 closing, no rehab, three
\* months of payment and insurance in reserve, 2100 of fees
C17_Witness ==
    /\ pc = "financed"
    /\ ~cfg.cash_costs.rehab_numeric
    /\ "tax_expense" \notin df.cols
    /\ \E k \in DOMAIN df.rows :
          LET r == df.rows[k]
          IN /\ r["price"] = 100000 /\ r["down_payment"] = 20000
             /\ r["rehab_cost"] = 0
             /\ r["monthly_piti"] = r["monthly_payment"] + 125
             /\ r["monthly_payment"] > 0
             /\ r["reserves"] = 3 * r["monthly_piti"]
             /\ r["cash_needed"] = 20000 + 3000 + r["reserves"] + 2100

-----------------------------------------------------------------------------
(* SpecScore: the income model, the financing, the filter and the score on  *)
(* merged tables whose records carry the crime_index of a crime table:      *)
(* neutral, 1.2, exactly 1.25, and 1.3                                      *)

CrimeIndexes == {NeutralCrime, 12000, 12500, 13000}

ScoreRowChoices(i) ==
    IF i = 1
    THEN {[JoinedRow(501, "NY", p, 2500, 150) EXCEPT !.crime_index = c] :
             p \in {0, 100000}, c \in CrimeIndexes}
    ELSE IF i = 2
    THEN {[JoinedRow(2139, "MA", 80000, 2000, 150) EXCEPT !.crime_index = c] :
             c \in CrimeIndexes}
    ELSE {[JoinedRow(10000 + i, "NY", 120000, 2500, 150) EXCEPT !.crime_index = c] :
             c \in {NeutralCrime, 13000}}

RECURSIVE ScoreRowSeqs(_)
ScoreRowSeqs(k) ==
    IF k = 0 THEN {<<>>}
    ELSE {Append(s, r) : s \in ScoreRowSeqs(k - 1), r \in ScoreRowChoices(k)}

ScoreTables ==
    {[cols |-> JoinedCols, rows |-> rows] :
        rows \in UNION {ScoreRowSeqs(k) : k \in 0..MaxRows}}

\* a loan without a down payment over 15 years, and a score that weighs the
\* cash-on-cash return alone
NoDownLoan == [rate |-> 600, term_years |-> 15, down_payment_pct |-> 0]
CocOnlyWeights == [cap_rate |-> 0, cash_on_cash |-> 10000, dscr |-> 0, price |-> 0]

ScoreConfigs ==
    RankConfigs \cup
        {Config(AllStates, 0, 0, 60000, NoDownLoan, DefaultCosts, CocOnlyWeights)}

InitScore ==
    /\ pc = "joined"
    /\ df \in ScoreTables
    /\ inp = [joined |-> df]
    /\ cfg \in ScoreConfigs
    /\ exit = Running
    /\ echo = {}
    /\ NoFiles

NextScore == NextRank

SpecScore == InitScore /\ [][NextScore]_vars

\* cap_rate*w_cap + cash_on_cash*w_coc + dscr*w_dscr + (1,000,000 / price)*w_price
\* of a record; with price 0 the last term is infinite, or undefined under a
\* price weight of 0
Unpenalized(r, w) ==
    IF r["price"] = 0 THEN (IF w.price = 0 THEN NaN ELSE PosInf)
    ELSE Plus(Plus(Plus(Times(r["cap_rate"], w.cap_rate),
                        Times(r["cash_on_cash"], w.cash_on_cash)),
                   Times(r["dscr"], w.dscr)),
              (1000000 * w.price) \div r["price"])

\* 0.95 times a score
Penalized(x) == IF x \in {NaN, PosInf} THEN x ELSE (x * 95) \div 100

\* C18: every ranked record passes the hard filter and has the score
\* 0.95 x (cap_rate*w_cap + cash_on_cash*w_coc + dscr*w_dscr +
\* (1,000,000 / price)*w_price) when its crime_index > 1.25 and exactly that
\* weighted sum when crime_index <= 1.25; the score step leaves the set of
\* records that passed the hard filter as it is.
C18_ScoreAndPenalty ==
    /\ [](pc = "ranked" =>
            \A k \in DOMAIN df.rows :
               LET r == df.rows[k]
                   base == Unpenalized(r, cfg.scoring_weights)
               IN /\ AllThreeHold(r)
                  /\ r["crime_index"] > 12500 => r["score"] = Penalized(base)
                  /\ r["crime_index"] <= 12500 => r["score"] = base)
    /\ [][(pc = "filtered" /\ pc' = "ranked") =>
            /\ Len(df'.rows) = Len(df.rows)
            /\ \A i \in DOMAIN df.rows :
                  \E j \in DOMAIN df'.rows : Unscored(df'.rows[j]) = df.rows[i]]_vars

\* a ranked table with a record of crime_index 1.3 at 0.95 of its weighted sum
\* and a record of crime_index exactly 1.25 at its full weighted sum
C18_Witness ==
    /\ pc = "ranked"
    /\ \E k, l \in DOMAIN df.rows :
          LET a == df.rows[k]
              b == df.rows[l]
          IN /\ a["crime_index"] = 13000 /\ a["price"] = 100000
             /\ a["score"] = (Unpenalized(a, cfg.scoring_weights) * 95) \div 100
             /\ a["score"] < Unpenalized(a, cfg.scoring_weights)
             /\ b["crime_index"] = 12500 /\ b["price"] = 80000
             /\ b["score"] = Unpenalized(b, cfg.scoring_weights)
             /\ b["score"] > 0

-----------------------------------------------------------------------------
(* SpecPair: the score and the ranking of a filtered table of two records   *)
(* that differ in cap_rate alone                                            *)

PairCols == {"zip", "price", "cap_rate", "cash_on_cash", "dscr", "cash_needed",
             "crime_index"}
PairRow(n, cap, coc, dscr, price, crime) ==
    [zip |-> ZFill(IntStr(n), ZipWidth), price |-> price, cap_rate |-> cap,
     cash_on_cash |-> coc, dscr |-> dscr, cash_needed |-> price, crime_index |-> crime]

CapRates == {0, 500, 822, 1200}

PairTables ==
    {[cols |-> PairCols,
      rows |-> <<PairRow(501, a, coc, dscr, price, crime),
                 PairRow(2139, b, coc, dscr, price, crime)>>] :
        a \in CapRates, b \in CapRates, coc \in {-200, 0, 900}, dscr \in {0, 13500},
        price \in {80000, 100000}, crime \in CrimeIndexes}

CapOnlyWeights == [cap_rate |-> 10000, cash_on_cash |-> 0, dscr |-> 0, price |-> 0]
PriceHeavyWeights == [cap_rate |-> 1000, cash_on_cash |-> 3000, dscr |-> 4000,
                      price |-> 2000]

PairConfigs ==
    {Config(AllStates, 0, 0, 100000, AllCashLoan, ZeroCosts, w) :
        w \in {DefaultWeights, CapOnlyWeights, PriceHeavyWeights}}

InitPair ==
    /\ pc = "filtered"
    /\ df \in PairTables
    /\ inp = [filtered |-> df]
    /\ cfg \in PairConfigs
    /\ exit = Running
    /\ echo = {}
    /\ NoFiles

NextPair == RunRank

SpecPair == InitPair /\ [][NextPair]_vars

\* C19: of two scored records that differ only in cap_rate, under a cap_rate
\* weight > 0, the one with the larger cap_rate has the strictly larger
\* score, whether the crime penalty applies to the two or not.
C19_ScoreMonotone ==
    (pc = "ranked" /\ cfg.scoring_weights.cap_rate > 0) =>
        \A k, l \in DOMAIN df.rows :
            df.rows[k]["cap_rate"] > df.rows[l]["cap_rate"] =>
                df.rows[k]["score"] > df.rows[l]["score"]

\* two penalised records and their scores: 0.95 of the weighted sums under
\* the default weights, the larger for the cap_rate of 12% against 5%
C19_Witness ==
    /\ pc = "ranked"
    /\ cfg.scoring_weights = DefaultWeights
    /\ Len(df.rows) = 2
    /\ df.rows[1]["crime_index"] = 13000 /\ df.rows[2]["crime_index"] = 13000
    /\ df.rows[1]["cap_rate"] = 1200 /\ df.rows[2]["cap_rate"] = 500
    /\ df.rows[1]["cash_on_cash"] = 900 /\ df.rows[2]["cash_on_cash"] = 900
    /\ df.rows[1]["price"] = df.rows[2]["price"]
    /\ df.rows[1]["score"] > df.rows[2]["score"]

-----------------------------------------------------------------------------
(* the merged table, the ranked table and the snapshots: C21                *)

\* no two rows of a table carry the same zip
OneRowPerZip(t) ==
    \A i, j \in DOMAIN t.rows : i # j => t.rows[i]["zip"] # t.rows[j]["zip"]

\* C21 (as claimed): the table that the source merge produces, at every later
\* step of the run, the ranked table written to the target file and every
\* snapshot have at most one row per zip, whatever the input tables hold.
C21_OneRowPerZip ==
    /\ pc \in {"merged", "validated", "joined", "income", "financed", "filtered",
               "ranked", "wrote_target", "wrote_snapshot", "wrote_duckdb"}
          => OneRowPerZip(df)
    /\ OneRowPerZip(target.data)
    /\ \A d \in DOMAIN snapshots : OneRowPerZip(snapshots[d].data)

\* the part of C21 that holds: a crosswalk that names one county per zip
\* gives a merged table of one row per zip
C21_OneCountyPerZip ==
    (pc \in {"merged", "validated", "joined"} /\ inp # TwoCountyInput)
        => OneRowPerZip(df)

-----------------------------------------------------------------------------
(* backend/app.py: /api/zips and /api/export.csv over the zipview table     *)

\* a query parameter that the request leaves out
Absent == [given |-> FALSE, value |-> 0]
Given(v) == [given |-> TRUE, value |-> v]
AbsentState == [given |-> FALSE, value |-> ""]

\* the WHERE clause: a falsy state adds no condition, a threshold adds one
\* whenever it is not None
Conditions(r, q) ==
    /\ (q.state.given /\ q.state.value # "") => r["state"] = q.state.value
    /\ q.min_cap.given => r["cap_rate"] >= q.min_cap.value
    /\ q.max_cash.given => r["cash_needed"] <= q.max_cash.value
    /\ q.min_dscr.given => r["dscr"] >= q.min_dscr.value
    /\ q.min_coc.given => r["cash_on_cash"] >= q.min_coc.value

\* the orders that ORDER BY score DESC may return the rows in: rows of equal
\* score come in an order that the query does not fix
OrderByScoreDesc(rows) ==
    LET n == Len(rows)
        perms == {f \in [1..n -> 1..n] : \A i, j \in 1..n : i # j => f[i] # f[j]}
    IN {[k \in 1..n |-> rows[f[k]]] : f \in
           {g \in perms : \A k \in 1..(n - 1) :
                rows[g[k]]["score"] >= rows[g[k + 1]]["score"]}}

\* LIMIT is appended only for a truthy limit
Limited(rows, limit) ==
    IF limit.given /\ limit.value # 0
    THEN SubSeq(rows, 1, IF limit.value < Len(rows) THEN limit.value ELSE Len(rows))
    ELSE rows

\* SELECT * FROM zipview WHERE ... ORDER BY score DESC [LIMIT n]
Query(q) ==
    LET sel == Select(zipview.data, LAMBDA r : Conditions(r, q)).rows
    IN {Limited(s, q.limit) : s \in OrderByScoreDesc(sel)}

Respond(code, body) ==
    /\ pc' = "responded"
    /\ exit' = [code |-> code, error |-> "", detail |-> body]
    /\ UNCHANGED <<df, cfg, inp, today, target, snapshots, zipview, deltasFile, echo>>

\* lines 47-97
get_zips ==
    /\ pc = "request"
    /\ inp.endpoint = "/api/zips"
    /\ IF ~zipview.exists
       THEN Respond(404, <<>>)
       ELSE \E rows \in Query(inp) : Respond(200, rows)

\* lines 100-154: the same query, without a limit
export_csv ==
    /\ pc = "request"
    /\ inp.endpoint = "/api/export.csv"
    /\ IF ~zipview.exists
       THEN Respond(404, <<>>)
       ELSE \E rows \in Query([inp EXCEPT !.limit = Absent]) : Respond(200, rows)

\* the rows that zipview may hold: ranked records, in descending score order
ViewCols == {"zip", "state", "cap_rate", "cash_needed", "dscr", "cash_on_cash", "score"}
ViewRow(n, st, cap, cash, dscr, coc, score) ==
    [zip |-> ZFill(IntStr(n), ZipWidth), state |-> st, cap_rate |-> cap,
     cash_needed |-> cash, dscr |-> dscr, cash_on_cash |-> coc, score |-> score]

ViewRowAt(i) ==
    IF i = 1 THEN ViewRow(2139, "MA", 1200, 22000, 15000, 900, 12000)
    ELSE IF i = 2 THEN ViewRow(501, "NY", 822, 27367, 13546, 786, 11000)
    ELSE ViewRow(10000 + i, "NY", 822, 21000, 12500, 700, 11000)

Views ==
    {[exists |-> FALSE, data |-> NoTable]} \cup
    {write_duckdb([cols |-> ViewCols, rows |-> [i \in 1..k |-> ViewRowAt(i)]]) :
        k \in 0..(MaxRows + 1)}

Requests ==
    [endpoint : {"/api/zips", "/api/export.csv"},
     limit : {Absent, Given(0), Given(1), Given(2)},
     state : {AbsentState, Given(""), Given("NY")},
     min_cap : {Absent, Given(1000)},
     max_cash : {Absent, Given(25000)},
     min_dscr : {Absent, Given(13000)},
     min_coc : {Absent, Given(0)}]

InitQuery ==
    /\ pc = "request"
    /\ inp \in {q \in Requests : q.endpoint = "/api/export.csv" => q.limit = Absent}
    /\ zipview \in Views
    /\ df = NoTable
    /\ cfg = NoConfig
    /\ today = 1
    /\ target = zipview
    /\ snapshots = [d \in Dates |-> IF d = 1 THEN zipview ELSE NoFile]
    /\ deltasFile = NoFile
    /\ exit = Running
    /\ echo = {}

NextQuery == get_zips \/ export_csv

SpecQuery == InitQuery /\ [][NextQuery]_vars

\* whether a zipview row satisfies every filter that the request supplies
Satisfies(r, q) ==
    /\ q.state.given => r["state"] = q.state.value
    /\ q.min_cap.given => r["cap_rate"] >= q.min_cap.value
    /\ q.max_cash.given => r["cash_needed"] <= q.max_cash.value
    /\ q.min_dscr.given => r["dscr"] >= q.min_dscr.value
    /\ q.min_coc.given => r["cash_on_cash"] >= q.min_coc.value

\* the zipview rows that satisfy the request, and the rows of the response
Wanted == {r \in {zipview.data.rows[i] : i \in DOMAIN zipview.data.rows} :
              Satisfies(r, inp)}
Returned == {exit.detail[k] : k \in DOMAIN exit.detail}

\* the response: rows that satisfy every filter, each once, in descending
\* score order, all of them when there is no limit, and otherwise the first
\* `limit` of them
ExactAnswer ==
    /\ Returned \subseteq Wanted
    /\ Cardinality(Returned) = Len(exit.detail)
    /\ \A k \in 1..(Len(exit.detail) - 1) :
          exit.detail[k]["score"] >= exit.detail[k + 1]["score"]
    /\ IF inp.limit.given
       THEN /\ Len(exit.detail) =
                  (IF inp.limit.value < Cardinality(Wanted) THEN inp.limit.value
                   ELSE Cardinality(Wanted))
            /\ \A r \in Wanted \ Returned : \A x \in Returned : x["score"] >= r["score"]
       ELSE Returned = Wanted

\* C22 (as claimed): a response of /api/zips or /api/export.csv over an
\* existing zipview holds exactly the rows that satisfy every supplied
\* filter, in descending score order, and with a supplied limit the first
\* `limit` rows of that order and no more.
C22_QueryExact ==
    (pc = "responded" /\ zipview.exists) => ExactAnswer

\* the part of C22 that holds: the same, for requests whose limit, when
\* supplied, is at least 1 and whose state, when supplied, is not empty
C22_QueryExactTruthy ==
    (/\ pc = "responded" /\ zipview.exists
     /\ inp.limit.given => inp.limit.value >= 1
     /\ inp.state.given => inp.state.value # "") => ExactAnswer

-----------------------------------------------------------------------------
(* what the later stages leave alone: C23                                   *)

\* a record cut down to the given columns
Only(r, cols) == [c \in cols |-> r[c]]

\* C23: attach_financing_constraints keeps every column of its input, with
\* the same value in every record, and the table it was handed stays as it
\* was; the filter keeps records as they are; the score step adds score and
\* changes no other value of a surviving record.
C23_EarlierFieldsKept ==
    [][ /\ (pc = "income" /\ pc' = "financed") =>
            /\ df.cols \subseteq df'.cols
            /\ Len(df'.rows) = Len(df.rows)
            /\ \A k \in DOMAIN df.rows : Only(df'.rows[k], df.cols) = df.rows[k]
            /\ inp' = inp
        /\ (pc = "financed" /\ pc' = "filtered") =>
            /\ df'.cols = df.cols
            /\ \A j \in DOMAIN df'.rows : \E i \in DOMAIN df.rows : df'.rows[j] = df.rows[i]
        /\ (pc = "filtered" /\ pc' = "ranked") =>
            /\ df'.cols = df.cols \cup {"score"}
            /\ \A j \in DOMAIN df'.rows :
                  \E i \in DOMAIN df.rows : Only(df'.rows[j], df.cols) = df.rows[i]
      ]_vars

\* a ranked record that still carries the price, rent, tax rate, noi and
\* cap_rate that the earlier stages gave it
C23_Witness ==
    /\ pc = "ranked"
    /\ \E k \in DOMAIN df.rows :
          LET r == df.rows[k]
          IN /\ r["price"] = 100000 /\ r["rent"] = 2500 /\ r["eff_tax_rate"] = 150
             /\ r["noi"] = 8220 /\ r["cap_rate"] = 822
             /\ r["cash_needed"] # NaN /\ r["score"] # NaN
             /\ r["zip"] = inp.joined.rows[1]["zip"]

-----------------------------------------------------------------------------
(* SpecWinsor: scoring.winsorize_by_state on two tables that hold the same  *)
(* NY rows and differ in their MA rows                                      *)

WinsorCols == {"zip", "state", "price"}
WinsorRow(i, st, price) ==
    [zip |-> ZFill(IntStr(10000 + i), ZipWidth), state |-> st, price |-> price]

WinsorPrices == {NaN, 0, 80000, 100000}

\* rows 1 and 2 are of NY, row 3 of NY or MA, the rows after it of MA
WinsorStateAt(i, third) == IF i <= 2 THEN "NY" ELSE IF i = 3 THEN third ELSE "MA"

WinsorPairs ==
    {[one |-> [cols |-> WinsorCols,
               rows |-> [i \in 1..(MaxRows + 2) |->
                           WinsorRow(i, WinsorStateAt(i, third), a[i])]],
      other |-> [cols |-> WinsorCols,
                 rows |-> [i \in 1..(MaxRows + 2) |->
                             WinsorRow(i, WinsorStateAt(i, third),
                                       IF WinsorStateAt(i, third) = "NY" THEN a[i]
                                       ELSE b)]]] :
        a \in [1..(MaxRows + 2) -> WinsorPrices], b \in {60000, 120000},
        third \in {"NY", "MA"}}

InitWinsor ==
    /\ pc = "raw"
    /\ \E v \in WinsorPairs :
          /\ df = v.one
          /\ inp = [other |-> v.other]
    /\ cfg = NoConfig
    /\ exit = Running
    /\ echo = {}
    /\ NoFiles

\* lines 7-33, on the price column of each of the two tables
RunWinsorize ==
    /\ pc = "raw"
    /\ pc' = "winsorized"
    /\ df' = winsorize_by_state(df, "price")
    /\ inp' = [other |-> winsorize_by_state(inp.other, "price")]
    /\ UNCHANGED <<cfg, today, target, snapshots, zipview, deltasFile, exit, echo>>

NextWinsor == RunWinsorize

SpecWinsor == InitWinsor /\ [][NextWinsor]_vars

\* the present prices of the rows of a table that share the state of row k
GroupPrices(t, k) ==
    {t.rows[i]["price"] : i \in {j \in DOMAIN t.rows :
        t.rows[j]["state"] = t.rows[k]["state"] /\ t.rows[j]["price"] # NaN}}

\* C24: winsorize_by_state keeps the rows, their order, zip and state; a
\* clipped value stays within the least and the greatest original value of
\* its own state group, the value of a one-row group stays as it is, and
\* the rows of a state come out the same whatever the rows of another state
\* hold.
C24_WinsorizeByGroup ==
    [][(pc = "raw" /\ pc' = "winsorized") =>
          /\ Len(df'.rows) = Len(df.rows)
          /\ df'.cols = df.cols
          /\ \A k \in DOMAIN df.rows :
                LET old == df.rows[k]
                    new == df'.rows[k]
                    group == GroupPrices(df, k)
                IN /\ new["zip"] = old["zip"] /\ new["state"] = old["state"]
                   /\ (old["price"] = NaN) = (new["price"] = NaN)
                   /\ old["price"] # NaN =>
                         /\ \E x \in group : x <= new["price"]
                         /\ \E x \in group : new["price"] <= x
                   /\ Cardinality({j \in DOMAIN df.rows :
                          df.rows[j]["state"] = old["state"]}) = 1
                         => new["price"] = old["price"]
                   /\ old["state"] = "NY" =>
                         new["price"] = inp'.other.rows[k]["price"]]_vars

\* two NY values 0 and 100000 pulled in to 1000 and 99000, next to MA rows
\* that differ between the two tables
C24_Witness ==
    /\ pc = "winsorized"
    /\ df.rows[1]["price"] = 1000 /\ df.rows[2]["price"] = 99000
    /\ df.rows[3]["state"] = "MA"
    /\ df.rows[3]["price"] # NaN
    /\ df.rows[3]["price"] # inp.other.rows[3]["price"]
    /\ inp.other.rows[1]["price"] = 1000

-----------------------------------------------------------------------------
(* SpecImpute: compute_caps on merged tables of three records with missing  *)
(* prices and rents, with and without a state column                        *)

ImputeRows ==
    {<<JoinedRow(501, "NY", p1, r1, 150), JoinedRow(2139, s2, p2, r2, 150),
       JoinedRow(10003, s3, p3, 2000, 150)>> :
        p1 \in {NaN, 80000, 120000}, p2 \in {NaN, 80000, 120000},
        p3 \in {NaN, 80000, 120000}, r1 \in {NaN, 2000}, r2 \in {NaN, 1000},
        s2 \in AllStates, s3 \in AllStates}

ImputeTables ==
    {[cols |-> JoinedCols, rows |-> rows] : rows \in ImputeRows}
        \cup {Project([cols |-> JoinedCols, rows |-> rows], JoinedCols \ {"state"}) :
                 rows \in ImputeRows}

InitImpute ==
    /\ pc = "joined"
    /\ df \in ImputeTables
    /\ inp = [joined |-> df]
    /\ cfg = DefaultConfig(AllStates)
    /\ exit = Running
    /\ echo = {}
    /\ NoFiles

NextImpute == RunIncome

SpecImpute == InitImpute /\ [][NextImpute]_vars

\* the k-th smallest of the values of a sequence
Kth(v, k) ==
    CHOOSE x \in {v[i] : i \in DOMAIN v} :
        /\ Cardinality({i \in DOMAIN v : v[i] < x}) < k
        /\ k <= Cardinality({i \in DOMAIN v : v[i] <= x})

\* the median of the present values of a sequence of cells
MedianOfPresent(cells) ==
    LET v == SelectSeq(cells, LAMBDA x : x # NaN)
        n == Len(v)
    IN IF n = 0 THEN NaN
       ELSE IF n % 2 = 1 THEN Kth(v, (n + 1) \div 2)
       ELSE (Kth(v, n \div 2) + Kth(v, n \div 2 + 1)) \div 2

\* the cells of a column, and those of the rows that share the state of row k
ColumnOf(t, col) == [i \in DOMAIN t.rows |-> t.rows[i][col]]
GroupOf(t, col, k) ==
    LET rs == SelectSeq(t.rows, LAMBDA r : r["state"] = t.rows[k]["state"])
    IN [i \in DOMAIN rs |-> rs[i][col]]

\* a column after the fill by state: a missing cell takes the median of its state
StateFilled(t, col) ==
    [k \in DOMAIN t.rows |->
        IF t.rows[k][col] # NaN \/ "state" \notin t.cols THEN t.rows[k][col]
        ELSE MedianOfPresent(GroupOf(t, col, k))]

\* what compute_caps must make of a column of the winsorized table w
Imputed(w, col, k) ==
    IF w.rows[k][col] # NaN THEN w.rows[k][col]
    ELSE IF StateFilled(w, col)[k] # NaN THEN StateFilled(w, col)[k]
    ELSE MedianOfPresent(StateFilled(w, col))

\* C25: compute_caps imputes after it has winsorized: a price or rent that is
\* present after winsorization stays as it is; a missing one takes the median
\* of the present values of its own state when the state has one, and
\* otherwise the median over all records (as they stand after the fill by
\* state); no price or rent is missing afterwards when some record has it.
C25_ImputeByStateThenGlobal ==
    [][(pc = "joined" /\ pc' = "income") =>
          LET w == IF "state" \in df.cols
                   THEN winsorize_by_state(winsorize_by_state(df, "price"), "rent")
                   ELSE df
          IN /\ Len(df'.rows) = Len(df.rows)
             /\ \A k \in DOMAIN df.rows : \A col \in {"price", "rent"} :
                   /\ df'.rows[k][col] = Imputed(w, col, k)
                   /\ (\E i \in DOMAIN df.rows : df.rows[i][col] # NaN)
                         => df'.rows[k][col] # NaN]_vars

\* a missing NY price filled with the one NY price, 120000, where the median
\* over all records would have been 100000, and a missing rent of a state
\* without rents filled with the median over all records
C25_Witness ==
    /\ pc = "income"
    /\ "state" \in df.cols
    /\ inp.joined.rows[1]["price"] = NaN /\ inp.joined.rows[1]["rent"] = NaN
    /\ inp.joined.rows[2]["state"] = "MA" /\ inp.joined.rows[2]["price"] = 80000
    /\ inp.joined.rows[2]["rent"] = 1000
    /\ inp.joined.rows[3]["state"] = "NY" /\ inp.joined.rows[3]["price"] = 120000
    /\ df.rows[1]["price"] = 120000
    /\ df.rows[1]["rent"] = 2000
    /\ df.rows[2]["price"] = 80000

-----------------------------------------------------------------------------
(* deltas of a snapshot against itself, and the deltas file: C26, C27       *)

\* every record of a snapshot has a finite score, cap_rate and cash_needed
FiniteSnapshot(t) ==
    \A i \in DOMAIN t.rows :
        \A c \in {"score", "cap_rate", "cash_needed"} :
            t.rows[i][c] \notin {NaN, PosInf, NegInf}

\* deltas compares the latest snapshot with itself
ComparesWithItself(since) == Compares(since) /\ since.date = Newest

\* C26 (as claimed): when the since date is the date of the latest snapshot,
\* and the snapshot's scores, cap rates and cash amounts are finite, deltas
\* yields no record: no zip is new, removed or changed.
C26_SelfDeltaEmpty ==
    [][\A since \in SinceArgs :
          (/\ Deltas(since)
           /\ ComparesWithItself(since)
           /\ FiniteSnapshot(snapshots[Newest].data)) => Yielded = <<>>]_vars

\* the part of C26 that holds: the same, for a snapshot of one row per zip
C26_SelfDeltaEmptyOneRowPerZip ==
    [][\A since \in SinceArgs :
          (/\ Deltas(since)
           /\ ComparesWithItself(since)
           /\ OneRowPerZip(snapshots[Newest].data)
           /\ FiniteSnapshot(snapshots[Newest].data)) => Yielded = <<>>]_vars

\* C27 (as claimed): after a deltas invocation that ends without error,
\* deltas.parquet, if it exists, holds exactly the records of the comparison
\* just made; an invocation that finds no significant change does not leave
\* the records of an earlier comparison in the file.
C27_DeltasFileCurrent ==
    [][\A since \in SinceArgs :
          (Deltas(since) /\ Compares(since) /\ exit'.code = 0) =>
              (deltasFile'.exists => deltasFile'.data.rows = Yielded)]_vars

\* what deltas does instead: an invocation that finds no significant change
\* leaves deltas.parquet as it found it
C27_NoChangeKeepsFile ==
    [][\A since \in SinceArgs :
          (Deltas(since) /\ Compares(since) /\ Yielded = <<>>) =>
              deltasFile' = deltasFile]_vars

-----------------------------------------------------------------------------
(* the three persisted copies of the ranked table: C28                      *)

\* C28 (as claimed): whenever no run is in progress, after runs that have
\* completed or aborted at any step, target_zips.parquet, the most recent
\* dated snapshot and the table zipview hold the same ranked table.
C28_ThreeCopiesAgree ==
    (pc = "idle" /\ (target.exists \/ zipview.exists
                        \/ \E d \in Dates : snapshots[d].exists)) =>
        /\ target.exists /\ zipview.exists /\ \E d \in Dates : snapshots[d].exists
        /\ target.data = snapshots[Newest].data
        /\ target.data = zipview.data

\* the part of C28 that holds: when a run completes, the three copies hold the
\* table it ranked
C28_AgreeOnCompletion ==
    pc = "done" =>
        /\ target.data = df /\ zipview.data = df
        /\ snapshots[Newest].data = df

-----------------------------------------------------------------------------
(* the scores of the ranked table: C29, C30                                 *)

\* C29 (as claimed): every record of the ranked table has a finite score,
\* whatever the thresholds and the weights, records of price 0 included.
C29_ScoreFinite ==
    pc = "ranked" =>
        \A k \in DOMAIN df.rows : df.rows[k]["score"] \notin {NaN, PosInf, NegInf}

\* the part of C29 that holds: a ranked record with a price above 0 has a
\* finite score
C29_ScoreFinitePositivePrice ==
    pc = "ranked" =>
        \A k \in DOMAIN df.rows :
            df.rows[k]["price"] > 0 => df.rows[k]["score"] \notin {NaN, PosInf, NegInf}

\* the weighted sum of a ranked record is a number
Scored(r) == Unpenalized(r, cfg.scoring_weights) \notin {NaN, PosInf, NegInf}

\* C30 (as claimed): the score of a ranked record with crime_index > 1.25 is
\* at most its unpenalized weighted sum, whatever the weights and thresholds.
C30_PenaltyNeverRaises ==
    pc = "ranked" =>
        \A k \in DOMAIN df.rows :
            (df.rows[k]["crime_index"] > 12500 /\ Scored(df.rows[k])) =>
                df.rows[k]["score"] <= Unpenalized(df.rows[k], cfg.scoring_weights)

\* the part of C30 that holds: the same, for a weighted sum that is not
\* negative
C30_PenaltyNeverRaisesNonNegative ==
    pc = "ranked" =>
        \A k \in DOMAIN df.rows :
            (/\ df.rows[k]["crime_index"] > 12500
             /\ Scored(df.rows[k])
             /\ Unpenalized(df.rows[k], cfg.scoring_weights) >= 0) =>
                df.rows[k]["score"] <= Unpenalized(df.rows[k], cfg.scoring_weights)

=============================================================================
